---- MODULE Spec2Model ----
(***************************************************************************)
(* Model of the capacidad package: the CSV loader (parser.py), its cell    *)
(* parsers and validate, the node diagnostic, the queries and the report   *)
(* (analysis.py), and the node and report commands (cli.py).               *)
(*                                                                         *)
(* A Python str is a sequence of symbols.  A symbol is a one-character     *)
(* string; the checkmark glyph U+2713 is written "CHECKMARK", and a word   *)
(* that no operation looks inside (a criterion code, a free-text reason)   *)
(* may be written as one symbol.  A missing value (None / NaN, what        *)
(* pd.isna answers True for) is NA.                                        *)
(***************************************************************************)
EXTENDS Integers, Sequences, FiniteSets, TLC

VARIABLES
    file,       \* the source path: [exists, lines], lines = rows of raw fields
    loaded,     \* outcome of the last load_csv call: [exc, msg, df]
    ioTrace,    \* file-system calls made by the last load_csv call, in order
    diag,       \* outcome of the last diagnose_node call: [exc, at, ret, query]
    cell,       \* a raw cell handed to a cell parser
    out,        \* outcome of the last cell-parser call: [fn, val]
    res         \* outcome of the last query call: [fn, args, exc, ret]

vars == <<file, loaded, ioTrace, diag, cell, out, res>>

---------------------------------------------------------------------------
(* Bounds of the model *)

\* longest raw cell handed to the cell parsers
MaxLen == 5
\* longest node name of a one-row file
MaxNameLen == 3
\* most data rows of a file
MaxRows == 2
\* most data rows of a table the queries are run on
MaxTableRows == 3

---------------------------------------------------------------------------
(* Python str operations *)

NA == <<"<NA>">>

Whitespace == {" ", "\t", "\n"}

Digits == {"0", "1", "2", "3", "4", "5", "6", "7", "8", "9"}

\* all strings over alphabet A of length at most n
StringsUpTo(A, n) == UNION {[1..k -> A] : k \in 0..n}

RECURSIVE LStrip(_)
LStrip(s) ==
    IF s # <<>> /\ Head(s) \in Whitespace THEN LStrip(Tail(s)) ELSE s

RECURSIVE RStrip(_)
RStrip(s) ==
    IF s # <<>> /\ s[Len(s)] \in Whitespace
    THEN RStrip(SubSeq(s, 1, Len(s) - 1))
    ELSE s

\* str.strip()
Strip(s) == RStrip(LStrip(s))

\* str.replace(c, "")
Remove(s, c) == SelectSeq(s, LAMBDA x : x # c)

LowerCase ==
    [a |-> "A", b |-> "B", c |-> "C", d |-> "D", e |-> "E", f |-> "F",
     g |-> "G", h |-> "H", i |-> "I", j |-> "J", k |-> "K", l |-> "L",
     m |-> "M", n |-> "N", o |-> "O", p |-> "P", q |-> "Q", r |-> "R",
     s |-> "S", t |-> "T", u |-> "U", v |-> "V", w |-> "W", x |-> "X",
     y |-> "Y", z |-> "Z"]

UpperChar(c) == IF c \in DOMAIN LowerCase THEN LowerCase[c] ELSE c

\* str.upper()
Upper(s) == [i \in 1..Len(s) |-> UpperChar(s[i])]

\* pd.isna(val)
IsNa(val) == val = NA

---------------------------------------------------------------------------
(* Python float: a finite value is m * 10^e with m not a multiple of 10    *)
(* (zero is m = 0, e = 0; the sign of zero is not kept); nan and inf are   *)
(* their own kinds (an inf keeps its sign in m).  Binary rounding is not   *)
(* modelled: every value of the bounded inputs is far below 2^53 digits.   *)

Float(m, e) == [kind |-> "fin", m |-> m, e |-> e]
Zero == Float(0, 0)
NaN == [kind |-> "nan", m |-> 0, e |-> 0]
Inf(sign) == [kind |-> "inf", m |-> sign, e |-> 0]
ValueError == [kind |-> "ValueError", m |-> 0, e |-> 0]

RECURSIVE Normal(_, _)
Normal(m, e) ==
    IF m = 0 THEN Zero
    ELSE IF m % 10 = 0 THEN Normal(m \div 10, e + 1)
    ELSE Float(m, e)

Negate(f) == [f EXCEPT !.m = 0 - f.m]

\* f == 0
IsZero(f) == f.kind = "fin" /\ f.m = 0
\* f > 0
IsPositive(f) == f.kind \in {"fin", "inf"} /\ f.m > 0

RECURSIVE Pow10(_)
Pow10(n) == IF n <= 0 THEN 1 ELSE 10 * Pow10(n - 1)

\* a digit group of a numeric literal: digits, single underscores between them
DigitsOK(t) ==
    /\ t # <<>>
    /\ t[1] \in Digits
    /\ t[Len(t)] \in Digits
    /\ \A i \in 1..Len(t) : t[i] \in Digits \cup {"_"}
    /\ \A i \in 1..(Len(t) - 1) : ~(t[i] = "_" /\ t[i + 1] = "_")

DigitVal(c) ==
    CASE c = "0" -> 0 [] c = "1" -> 1 [] c = "2" -> 2 [] c = "3" -> 3
      [] c = "4" -> 4 [] c = "5" -> 5 [] c = "6" -> 6 [] c = "7" -> 7
      [] c = "8" -> 8 [] c = "9" -> 9

RECURSIVE DigitsVal(_)
DigitsVal(t) ==
    IF t = <<>> THEN 0
    ELSE IF t[Len(t)] = "_" THEN DigitsVal(SubSeq(t, 1, Len(t) - 1))
    ELSE 10 * DigitsVal(SubSeq(t, 1, Len(t) - 1)) + DigitVal(t[Len(t)])

NDigits(t) == Len(SelectSeq(t, LAMBDA c : c \in Digits))

\* index of the first symbol of s in set S, 0 when there is none
IndexIn(s, S) ==
    IF \E i \in 1..Len(s) : s[i] \in S
    THEN CHOOSE i \in 1..Len(s) : s[i] \in S /\ \A j \in 1..(i - 1) : s[j] \notin S
    ELSE 0

\* the unsigned decimal literal  digits [. digits] [e [sign] digits]
PyDecimal(t) ==
    LET ePos == IndexIn(t, {"e", "E"})
        mant == IF ePos = 0 THEN t ELSE SubSeq(t, 1, ePos - 1)
        expo == IF ePos = 0 THEN <<>> ELSE SubSeq(t, ePos + 1, Len(t))
        eNeg == expo # <<>> /\ expo[1] = "-"
        eDig == IF expo # <<>> /\ expo[1] \in {"-", "+"} THEN Tail(expo) ELSE expo
        dot  == IndexIn(mant, {"."})
        ip   == IF dot = 0 THEN mant ELSE SubSeq(mant, 1, dot - 1)
        fp   == IF dot = 0 THEN <<>> ELSE SubSeq(mant, dot + 1, Len(mant))
        ok   == /\ ip # <<>> \/ fp # <<>>
                /\ ip = <<>> \/ DigitsOK(ip)
                /\ fp = <<>> \/ DigitsOK(fp)
                /\ ePos = 0 \/ DigitsOK(eDig)
        ev   == IF ePos = 0 THEN 0
                ELSE IF eNeg THEN 0 - DigitsVal(eDig) ELSE DigitsVal(eDig)
    IN  IF ~ok THEN ValueError
        ELSE Normal(DigitsVal(ip) * Pow10(NDigits(fp)) + DigitsVal(fp),
                    ev - NDigits(fp))

\* float(str): surrounding whitespace, an optional sign, then nan, inf,
\* infinity (any case) or a decimal literal; anything else is a ValueError
PyFloat(s) ==
    LET t    == Strip(s)
        neg  == t # <<>> /\ t[1] = "-"
        body == IF t # <<>> /\ t[1] \in {"-", "+"} THEN Tail(t) ELSE t
        r    == IF Upper(body) = <<"N", "A", "N">> THEN NaN
                ELSE IF Upper(body) \in {<<"I", "N", "F">>,
                                         <<"I", "N", "F", "I", "N", "I", "T", "Y">>}
                THEN Inf(1)
                ELSE PyDecimal(body)
    IN  IF neg /\ r.kind # "ValueError" THEN Negate(r) ELSE r

\* int(float): truncation toward zero; nan and inf raise
PyInt(f) ==
    IF f.kind = "nan" THEN [exc |-> "ValueError", val |-> 0]
    ELSE IF f.kind = "inf" THEN [exc |-> "OverflowError", val |-> 0]
    ELSE IF f.e >= 0 THEN [exc |-> "none", val |-> f.m * Pow10(f.e)]
    ELSE IF f.m >= 0 THEN [exc |-> "none", val |-> f.m \div Pow10(0 - f.e)]
    ELSE [exc |-> "none", val |-> 0 - ((0 - f.m) \div Pow10(0 - f.e))]

---------------------------------------------------------------------------
(* parser.py: the cell parsers *)

\* the try/except of _parse_num around float(val)
FloatOrZero(val) ==
    LET r == PyFloat(val) IN IF r.kind = "ValueError" THEN Zero ELSE r

\* _parse_num without line 29: the dots stay and float() reads a decimal point
_parse_num_keep_dots(val) ==
    IF IsNa(val) THEN Zero
    ELSE LET v == Strip(val)
         IN  IF v \in {<<>>, <<"N", "/", "A">>} THEN Zero
             ELSE FloatOrZero(v)

\* _parse_num(val)
_parse_num(val) ==
    IF IsNa(val) THEN Zero
    ELSE LET v == Strip(val)
         IN  IF v \in {<<>>, <<"N", "/", "A">>} THEN Zero
             ELSE FloatOrZero(Remove(v, "."))

\* _parse_checkmark without .strip()
_parse_checkmark_no_strip(val) ==
    IF IsNa(val) THEN FALSE
    ELSE val = <<"CHECKMARK">>

\* _parse_checkmark(val)
_parse_checkmark(val) ==
    IF IsNa(val) THEN FALSE
    ELSE Strip(val) = <<"CHECKMARK">>

---------------------------------------------------------------------------
(* models.py: the Schema Registry *)

COLUMN_NAMES ==
  <<
    "nudo", "cod_subestacion", "ccaa",
    "pos_gen_E", "pos_gen_P", "pos_con_E",
    "pos_con_P", "pos_dist_E", "pos_dist_P",
    "wscr_cap_nodal", "wscr_binudos", "wscr_alertas",
    "wscr_margen", "est_dem_cap_nodal", "est_dem_zona",
    "est_dem_margen", "est_dem_limit_temp", "est_alm_cap_nodal",
    "est_alm_zona", "est_alm_margen", "din1_margen",
    "din2_margen", "valor_referencia", "estado_acuerdo",
    "otorgada_dem_adicional", "otorgada_dem_cep_wscr", "otorgada_dem_rdt",
    "otorgada_dem_rdd", "otorgada_dem_rdd_no_ref", "otorgada_alm_adicional",
    "otorgada_alm_rdt", "otorgada_alm_rdd", "otorgada_alm_rdd_no_ref",
    "otorgada_dem_ch_rdt", "otorgada_dem_sh_rdt", "otorgada_ch_rdd",
    "otorgada_sh_rdd", "pendiente_dem_rdt", "pendiente_alm_rdt",
    "margen_dem_cep_ch", "margen_dem_cep_sh", "margen_dem_no_cep",
    "margen_alm_cep", "margen_alm_no_cep", "limitante_dem_cep_ch",
    "limitante_dem_cep_sh", "limitante_dem_no_cep", "limitante_alm_cep",
    "limitante_alm_no_cep", "no_otorg_dem_cep_ch", "no_otorg_dem_cep_sh",
    "no_otorg_dem_no_cep", "no_otorg_alm_cep", "no_otorg_alm_no_cep",
    "motivo_no_otorgable", "disp_dem_cep_ch", "disp_dem_cep_sh",
    "disp_dem_no_cep", "disp_alm_cep", "disp_alm_no_cep",
    "concurso"
  >>

NUMERIC_COLUMNS ==
  <<
    "wscr_cap_nodal", "wscr_margen", "est_dem_cap_nodal",
    "est_dem_margen", "est_alm_cap_nodal", "est_alm_margen",
    "din1_margen", "din2_margen", "valor_referencia",
    "otorgada_dem_adicional", "otorgada_dem_cep_wscr", "otorgada_dem_rdt",
    "otorgada_dem_rdd", "otorgada_dem_rdd_no_ref", "otorgada_alm_adicional",
    "otorgada_alm_rdt", "otorgada_alm_rdd", "otorgada_alm_rdd_no_ref",
    "otorgada_dem_ch_rdt", "otorgada_dem_sh_rdt", "otorgada_ch_rdd",
    "otorgada_sh_rdd", "pendiente_dem_rdt", "pendiente_alm_rdt",
    "margen_dem_cep_ch", "margen_dem_cep_sh", "margen_dem_no_cep",
    "margen_alm_cep", "margen_alm_no_cep", "no_otorg_dem_cep_ch",
    "no_otorg_dem_cep_sh", "no_otorg_dem_no_cep", "no_otorg_alm_cep",
    "no_otorg_alm_no_cep", "disp_dem_cep_ch", "disp_dem_cep_sh",
    "disp_dem_no_cep", "disp_alm_cep", "disp_alm_no_cep"
  >>

STRING_COLUMNS ==
  <<
    "nudo", "cod_subestacion", "ccaa",
    "wscr_binudos", "wscr_alertas", "est_dem_zona",
    "est_dem_limit_temp", "est_alm_zona", "estado_acuerdo",
    "limitante_dem_cep_ch", "limitante_dem_cep_sh", "limitante_dem_no_cep",
    "limitante_alm_cep", "limitante_alm_no_cep", "motivo_no_otorgable",
    "concurso"
  >>

POSITION_COLUMNS ==
  <<
    "pos_gen_E", "pos_gen_P", "pos_con_E",
    "pos_con_P", "pos_dist_E", "pos_dist_P"
  >>

EXPECTED_COLS == 61

EXPECTED_ROWS == 937

\* the set of elements of a sequence
Range(s) == {s[i] : i \in 1..Len(s)}

Min(a, b) == IF a <= b THEN a ELSE b

\* seq[:n]
Prefix(s, n) == SubSeq(s, 1, Min(n, Len(s)))

---------------------------------------------------------------------------
(* pandas.read_csv(filepath, sep=";", header=None, skiprows=4,             *)
(*                 encoding="utf-8-sig", dtype=str)                        *)

\* the strings read_csv turns into a missing value (keep_default_na)
STR_NA_VALUES ==
    {<<>>,
     <<"#", "N", "/", "A">>,
     <<"#", "N", "/", "A", " ", "N", "/", "A">>,
     <<"#", "N", "A">>,
     <<"-", "1", ".", "#", "I", "N", "D">>,
     <<"-", "1", ".", "#", "Q", "N", "A", "N">>,
     <<"-", "N", "a", "N">>,
     <<"-", "n", "a", "n">>,
     <<"1", ".", "#", "I", "N", "D">>,
     <<"1", ".", "#", "Q", "N", "A", "N">>,
     <<"<", "N", "A", ">">>,
     <<"N", "/", "A">>,
     <<"N", "A">>,
     <<"N", "U", "L", "L">>,
     <<"N", "a", "N">>,
     <<"N", "o", "n", "e">>,
     <<"n", "/", "a">>,
     <<"n", "a", "n">>,
     <<"n", "u", "l", "l">>}

HeaderRows == 4

ReadCell(field) == IF field \in STR_NA_VALUES THEN NA ELSE field

\* The frame has as many columns as the first data line has fields; a
\* shorter line is padded with missing values, a longer one is an error.
\* Blank lines (skipped by read_csv) do not occur in the modelled files.
read_csv(lines) ==
    LET data  == SubSeq(lines, HeaderRows + 1, Len(lines))
        width == Len(data[1])
    IN  IF Len(lines) <= HeaderRows
        THEN [exc |-> "EmptyDataError", width |-> 0, rows |-> <<>>]
        ELSE IF \E r \in 1..Len(data) : Len(data[r]) > width
        THEN [exc |-> "ParserError", width |-> 0, rows |-> <<>>]
        ELSE [exc |-> "none", width |-> width,
              rows |-> [r \in 1..Len(data) |->
                          [i \in 1..width |->
                              IF i <= Len(data[r]) THEN ReadCell(data[r][i])
                              ELSE NA]]]

---------------------------------------------------------------------------
(* parser.py: load_csv *)

\* a frame: column labels in order, and the rows, each a function of them
NoTable == [columns |-> <<>>, rows |-> <<>>]

\* position of a label in a sequence of labels
IndexOf(names, c) == CHOOSE i \in 1..Len(names) : names[i] = c

\* df[col].fillna("").str.strip()
StripString(v) == IF IsNa(v) THEN <<>> ELSE Strip(v)

\* the three conversion loops; the column lists are pairwise disjoint
ConvertCell(col, v) ==
    IF col \in Range(NUMERIC_COLUMNS) THEN _parse_num(v)
    ELSE IF col \in Range(POSITION_COLUMNS) THEN _parse_checkmark(v)
    ELSE IF col \in Range(STRING_COLUMNS) THEN StripString(v)
    ELSE v

\* df["pos_con_E"] | df["pos_con_P"]
HasDemandBay(row) == row["pos_con_E"] \/ row["pos_con_P"]

\* is_blocked_technical without the capacity test
IsBlockedTechnicalAnyCapacity(row) == row["limitante_dem_cep_ch"] # <<>>

\* (df["limitante_dem_cep_ch"] != "") & (df["disp_dem_cep_ch"] == 0)
IsBlockedTechnical(row) ==
    row["limitante_dem_cep_ch"] # <<>> /\ IsZero(row["disp_dem_cep_ch"])

\* df["motivo_no_otorgable"] != ""
IsBlockedRegulatory(row) == row["motivo_no_otorgable"] # <<>>

\* df["wscr_alertas"] != ""
HasWscrAlert(row) == row["wscr_alertas"] # <<>>

\* df["concurso"] == "SI"
IsConcurso(row) == row["concurso"] = <<"S", "I">>

\* acuerdo_resuelto as "not NO": an agreement that does not apply counts too
AcuerdoResueltoNotNo(row) == row["estado_acuerdo"] # <<"N", "O">>

\* df["estado_acuerdo"] == "SI"
AcuerdoResuelto(row) == row["estado_acuerdo"] = <<"S", "I">>

\* symbols after position j of s are all whitespace: \s*$ matches there
OnlySpaceAfter(s, j) == \A k \in (j + 1)..Len(s) : s[k] \in Whitespace

\* voltage_kv with the missing value filled with 0
ExtractVoltageOrZero(s) ==
    IF \E j \in 1..Len(s) : s[j] \in Digits /\ OnlySpaceAfter(s, j)
    THEN LET j == CHOOSE j \in 1..Len(s) :
                      s[j] \in Digits /\ OnlySpaceAfter(s, j)
             i == CHOOSE i \in 1..j :
                      /\ \A k \in i..j : s[k] \in Digits
                      /\ i = 1 \/ s[i - 1] \notin Digits
         IN  Normal(DigitsVal(SubSeq(s, i, j)), 0)
    ELSE Zero

\* df["nudo"].str.extract(r"(\d+)\s*$").astype(float): the leftmost, longest
\* run of digits that only whitespace follows; NaN when there is none
ExtractVoltage(s) ==
    IF \E j \in 1..Len(s) : s[j] \in Digits /\ OnlySpaceAfter(s, j)
    THEN LET j == CHOOSE j \in 1..Len(s) :
                      s[j] \in Digits /\ OnlySpaceAfter(s, j)
             i == CHOOSE i \in 1..j :
                      /\ \A k \in i..j : s[k] \in Digits
                      /\ i = 1 \/ s[i - 1] \notin Digits
         IN  Normal(DigitsVal(SubSeq(s, i, j)), 0)
    ELSE NaN

DerivedColumns ==
    <<"has_demand_bay", "is_blocked_technical", "is_blocked_regulatory",
      "has_wscr_alert", "is_concurso", "acuerdo_resuelto", "voltage_kv">>

\* the columns the derived-column expressions index: a missing one is a KeyError
DerivedInputs ==
    {"pos_con_E", "pos_con_P", "limitante_dem_cep_ch", "disp_dem_cep_ch",
     "motivo_no_otorgable", "wscr_alertas", "concurso", "estado_acuerdo",
     "nudo"}

Derive(row) ==
    [c \in DOMAIN row \cup Range(DerivedColumns) |->
        CASE c = "has_demand_bay" -> HasDemandBay(row)
          [] c = "is_blocked_technical" -> IsBlockedTechnical(row)
          [] c = "is_blocked_regulatory" -> IsBlockedRegulatory(row)
          [] c = "has_wscr_alert" -> HasWscrAlert(row)
          [] c = "is_concurso" -> IsConcurso(row)
          [] c = "acuerdo_resuelto" -> AcuerdoResuelto(row)
          [] c = "voltage_kv" -> ExtractVoltage(row["nudo"])
          [] OTHER -> row[c]]

\* COLUMN_NAMES[: len(df.columns)]
AssignedNames(width) == Prefix(COLUMN_NAMES, width)

\* load_csv without the existence test
FileMissingUnchecked(f) == FALSE

\* if not filepath.exists()
FileMissing(f) == ~f.exists

NotFoundMessage ==
    <<"CSV not found: ", "<filepath>", "\n",
      "Run 'capacidad download' to fetch it.">>

\* load_csv(filepath): [exc, msg, df, io]
load_csv(f) ==
    IF FileMissing(f)
    THEN [exc |-> "FileNotFoundError", msg |-> NotFoundMessage,
          df |-> NoTable, io |-> <<"exists">>]
    ELSE IF ~f.exists   \* pd.read_csv of a path that does not exist
    THEN [exc |-> "FileNotFoundError",
          msg |-> <<"[Errno 2] No such file or directory: ", "<filepath>">>,
          df |-> NoTable, io |-> <<"exists", "read_csv">>]
    ELSE
    LET raw   == read_csv(f.lines)
        names == AssignedNames(raw.width)
        typed == [r \in 1..Len(raw.rows) |->
                    [c \in Range(names) |->
                        ConvertCell(c, raw.rows[r][IndexOf(names, c)])]]
        fail(e, m) == [exc |-> e, msg |-> <<m>>, df |-> NoTable,
                       io |-> <<"exists", "read_csv">>]
    IN  IF raw.exc # "none" THEN fail(raw.exc, "read_csv")
        ELSE IF Len(names) # raw.width
        THEN fail("ValueError", "Length mismatch")
        ELSE IF ~(DerivedInputs \subseteq Range(names))
        THEN fail("KeyError", "column")
        ELSE [exc |-> "none", msg |-> <<>>,
              df |-> [columns |-> names \o DerivedColumns,
                      rows |-> [r \in 1..Len(typed) |-> Derive(typed[r])]],
              io |-> <<"exists", "read_csv">>]

---------------------------------------------------------------------------
(* analysis.py: diagnose_node *)

\* one pattern symbol against one subject symbol under re.IGNORECASE
SymMatches(p, c) ==
    IF p = "." THEN c # "\n" ELSE UpperChar(p) = UpperChar(c)

\* re.compile(pat) raises re.error: a group that is opened and not closed
\* ("missing ), unterminated subpattern"), or a quantifier at the start
\* ("nothing to repeat")
PatternError(pat) ==
    \/ \E i \in 1..Len(pat) :
          pat[i] = "(" /\ \A j \in (i + 1)..Len(pat) : pat[j] # ")"
    \/ pat # <<>> /\ pat[1] \in {"*", "+", "?"}

\* Series.str.contains(pat, case=False, na=False): pat is a regular
\* expression (regex=True is the default), searched anywhere in the subject.
\* Patterns that compile are made of literal symbols and the wildcard ".".
StrContains(s, pat) ==
    \E k \in 0..(Len(s) - Len(pat)) :
        \A i \in 1..Len(pat) : SymMatches(pat[i], s[k + i])

\* the index of a frame: the positions of its rows, in order
Index(rows) == [i \in 1..Len(rows) |-> i]

\* df[df["nudo"].str.upper() == node_name.upper()], as the index kept
ExactMatches(rows, q) ==
    SelectSeq(Index(rows), LAMBDA i : Upper(rows[i]["nudo"]) = Upper(q))

\* df[df["nudo"].str.contains(node_name, case=False, na=False)], as the
\* index kept
FuzzyMatches(rows, q) ==
    SelectSeq(Index(rows), LAMBDA i : StrContains(rows[i]["nudo"], q))

\* the columns diagnose_node passes through int(), in evaluation order
IntColumns ==
    <<"wscr_cap_nodal", "wscr_margen", "est_dem_cap_nodal", "est_dem_margen",
      "est_alm_cap_nodal", "est_alm_margen", "din1_margen", "din2_margen",
      "valor_referencia", "otorgada_dem_rdt", "otorgada_alm_rdt",
      "pendiente_dem_rdt", "pendiente_alm_rdt",
      "disp_dem_cep_ch", "disp_dem_cep_sh", "disp_dem_no_cep",
      "disp_alm_cep", "disp_alm_no_cep",
      "no_otorg_dem_cep_ch", "no_otorg_dem_no_cep">>

\* the exception of the first int() that raises, "none" when none does
FirstIntError(row) ==
    IF \E i \in 1..Len(IntColumns) : PyInt(row[IntColumns[i]]).exc # "none"
    THEN LET i == CHOOSE i \in 1..Len(IntColumns) :
                      /\ PyInt(row[IntColumns[i]]).exc # "none"
                      /\ \A j \in 1..(i - 1) :
                            PyInt(row[IntColumns[j]]).exc = "none"
         IN  PyInt(row[IntColumns[i]]).exc
    ELSE "none"

IntOf(row, c) == PyInt(row[c]).val

\* the interpretation: status and summary from the record built so far
Status(cep_ch, criterion, motivo) ==
    IF cep_ch > 0 THEN "AVAILABLE"
    ELSE IF criterion # <<>> THEN "BLOCKED_TECHNICAL"
    ELSE IF motivo # <<>> THEN "BLOCKED_REGULATORY"
    ELSE "BLOCKED_UNKNOWN"

\* the f-string of the branch taken: its fixed text, the MW figure and the
\* quoted field
Summary(cep_ch, criterion, motivo) ==
    IF cep_ch > 0
    THEN [text |-> "{} MW available for CEP CH demand", mw |-> cep_ch,
          field |-> <<>>]
    ELSE IF criterion # <<>>
    THEN [text |-> "Technically blocked by {}", mw |-> 0, field |-> criterion]
    ELSE IF motivo # <<>>
    THEN [text |-> "Regulatory block: {}", mw |-> 0, field |-> motivo]
    ELSE [text |-> "Blocked - no criteria or regulatory reason reported",
          mw |-> 0, field |-> <<>>]

\* the dict built from the resolved row
DiagOf(row) ==
    LET available ==
            [CEP_CH |-> IntOf(row, "disp_dem_cep_ch"),
             CEP_SH |-> IntOf(row, "disp_dem_cep_sh"),
             NO_CEP |-> IntOf(row, "disp_dem_no_cep"),
             Storage_CEP |-> IntOf(row, "disp_alm_cep"),
             Storage_NO_CEP |-> IntOf(row, "disp_alm_no_cep")]
        binding ==
            [CEP_CH |-> row["limitante_dem_cep_ch"],
             CEP_SH |-> row["limitante_dem_cep_sh"],
             NO_CEP |-> row["limitante_dem_no_cep"],
             Storage_CEP |-> row["limitante_alm_cep"],
             Storage_NO_CEP |-> row["limitante_alm_no_cep"]]
    IN  [nudo |-> row["nudo"],
         ccaa |-> row["ccaa"],
         cod_subestacion |-> row["cod_subestacion"],
         voltage_kv |-> row["voltage_kv"],
         has_demand_bay |-> row["has_demand_bay"],
         positions |->
            [gen_E |-> row["pos_gen_E"], gen_P |-> row["pos_gen_P"],
             con_E |-> row["pos_con_E"], con_P |-> row["pos_con_P"],
             dist_E |-> row["pos_dist_E"], dist_P |-> row["pos_dist_P"]],
         margins |->
            [WSCR |-> IntOf(row, "wscr_cap_nodal"),
             WSCR_margin |-> IntOf(row, "wscr_margen"),
             Est_Dem |-> IntOf(row, "est_dem_cap_nodal"),
             Est_Dem_margin |-> IntOf(row, "est_dem_margen"),
             Est_Alm |-> IntOf(row, "est_alm_cap_nodal"),
             Est_Alm_margin |-> IntOf(row, "est_alm_margen"),
             Din1_margin |-> IntOf(row, "din1_margen"),
             Din2_margin |-> IntOf(row, "din2_margen")],
         wscr_binudos |-> row["wscr_binudos"],
         wscr_alertas |-> row["wscr_alertas"],
         valor_referencia |-> IntOf(row, "valor_referencia"),
         estado_acuerdo |-> row["estado_acuerdo"],
         otorgada_dem_rdt |-> IntOf(row, "otorgada_dem_rdt"),
         otorgada_alm_rdt |-> IntOf(row, "otorgada_alm_rdt"),
         pendiente_dem_rdt |-> IntOf(row, "pendiente_dem_rdt"),
         pendiente_alm_rdt |-> IntOf(row, "pendiente_alm_rdt"),
         available |-> available,
         binding_criteria |-> binding,
         non_grantable |->
            [CEP_CH |-> IntOf(row, "no_otorg_dem_cep_ch"),
             NO_CEP |-> IntOf(row, "no_otorg_dem_no_cep")],
         motivo_no_otorgable |-> row["motivo_no_otorgable"],
         is_concurso |-> row["is_concurso"],
         est_dem_limit_temp |-> row["est_dem_limit_temp"],
         status |-> Status(available.CEP_CH, binding.CEP_CH,
                           row["motivo_no_otorgable"]),
         summary |-> Summary(available.CEP_CH, binding.CEP_CH,
                             row["motivo_no_otorgable"])]

NoReturn == [none |-> TRUE]

\* the row diagnose_node resolves: matches.iloc[0]
FirstOf(matches) == matches[1]

\* diagnose_node(df, node_name): [exc, ret, at]; ret is the returned dict,
\* at the position in df of the row resolved (0 when none is resolved)
diagnose_node(df, q) ==
    LET exact   == ExactMatches(df.rows, q)
        fuzzy   == FuzzyMatches(df.rows, q)
        matches == IF exact = <<>> THEN fuzzy ELSE exact
        at      == FirstOf(matches)
        row     == df.rows[at]
    IN  IF exact = <<>> /\ PatternError(q)
        THEN [exc |-> "re.error", at |-> 0, ret |-> NoReturn]
        ELSE IF exact = <<>> /\ fuzzy = <<>>
        THEN [exc |-> "none", at |-> 0,
              ret |-> [error |-> <<"Node '", q, "' not found">>]]
        ELSE IF exact = <<>> /\ Len(fuzzy) > 1
        THEN [exc |-> "none", at |-> 0,
              ret |-> [error |-> <<"Multiple matches for '", q, "'">>,
                       matches |-> [i \in 1..Len(fuzzy) |->
                                       df.rows[fuzzy[i]]["nudo"]]]]
        ELSE IF FirstIntError(row) # "none"
        THEN [exc |-> FirstIntError(row), at |-> at, ret |-> NoReturn]
        ELSE [exc |-> "none", at |-> at, ret |-> DiagOf(row)]

---------------------------------------------------------------------------
(* Arithmetic and comparison of floats, as numpy and pandas apply them to  *)
(* a column.  A comparison with nan is False.                              *)

\* the mantissa of a finite f at exponent e <= f.e
Scale(f, e) == f.m * Pow10(f.e - e)

\* f < g
FltLt(f, g) ==
    /\ f.kind # "nan"
    /\ g.kind # "nan"
    /\ IF f.kind = "inf" THEN f.m < 0 /\ ~(g.kind = "inf" /\ g.m < 0)
       ELSE IF g.kind = "inf" THEN g.m > 0
       ELSE Scale(f, Min(f.e, g.e)) < Scale(g, Min(f.e, g.e))

\* f == g
FltEq(f, g) == f.kind # "nan" /\ g.kind # "nan" /\ f = g

\* f >= g
FltGe(f, g) == f.kind # "nan" /\ g.kind # "nan" /\ ~FltLt(f, g)

\* f + g
FltAdd(f, g) ==
    IF f.kind = "nan" \/ g.kind = "nan" THEN NaN
    ELSE IF f.kind = "inf"
    THEN IF g.kind = "inf" /\ g.m # f.m THEN NaN ELSE f
    ELSE IF g.kind = "inf" THEN g
    ELSE Normal(Scale(f, Min(f.e, g.e)) + Scale(g, Min(f.e, g.e)),
                Min(f.e, g.e))

\* the values of a column that are not nan
NotNan(xs) == SelectSeq(xs, LAMBDA x : x.kind # "nan")

RECURSIVE AddAll(_)
AddAll(xs) ==
    IF xs = <<>> THEN Zero ELSE FltAdd(AddAll(SubSeq(xs, 1, Len(xs) - 1)),
                                       xs[Len(xs)])

\* Series.sum(): nan values are skipped, the sum of nothing is 0.0
Sum(xs) == AddAll(NotNan(xs))

\* a / b rounded to an integer, a tie going to the even neighbour (b > 0)
RoundRatio(a, b) ==
    LET q == a \div b
        r == a - q * b
    IN  IF 2 * r < b THEN q
        ELSE IF 2 * r > b THEN q + 1
        ELSE IF q % 2 = 0 THEN q ELSE q + 1

\* Series.mean().round(0).astype(int) of a group: the mean skips nan; a
\* mean that is nan or inf cannot be cast to int
MeanRounded(xs) ==
    LET n == Len(NotNan(xs))
        s == Sum(xs)
    IN  IF n = 0 \/ s.kind # "fin" THEN [exc |-> "ValueError", val |-> 0]
        ELSE IF s.e >= 0
        THEN [exc |-> "none", val |-> RoundRatio(s.m * Pow10(s.e), n)]
        ELSE [exc |-> "none", val |-> RoundRatio(s.m, n * Pow10(0 - s.e))]

\* Series.astype(int) of one float: truncation; nan and inf cannot be cast
AsInt(f) ==
    IF f.kind # "fin" THEN [exc |-> "ValueError", val |-> 0] ELSE PyInt(f)

---------------------------------------------------------------------------
(* Order of str values and sorting *)

\* the printable ASCII characters in code-point order (the double quote,
\* the backslash and the grave accent are left out)
CodePoints ==
    <<" ", "!", "#", "$", "%", "&", "'", "(", ")", "*", "+", ",", "-",
      ".", "/", "0", "1", "2", "3", "4", "5", "6", "7", "8", "9", ":", ";",
      "<", "=", ">", "?", "@", "A", "B", "C", "D", "E", "F", "G", "H", "I",
      "J", "K", "L", "M", "N", "O", "P", "Q", "R", "S", "T", "U", "V", "W",
      "X", "Y", "Z", "[", "]", "^", "_", "a", "b", "c", "d", "e",
      "f", "g", "h", "i", "j", "k", "l", "m", "n", "o", "p", "q", "r", "s",
      "t", "u", "v", "w", "x", "y", "z", "{", "|", "}", "~">>

Ord(c) == CHOOSE i \in 1..Len(CodePoints) : CodePoints[i] = c

\* s < t for str
RECURSIVE StrLt(_, _)
StrLt(s, t) ==
    IF t = <<>> THEN FALSE
    ELSE IF s = <<>> THEN TRUE
    ELSE IF s[1] = t[1] THEN StrLt(Tail(s), Tail(t))
    ELSE Ord(s[1]) < Ord(t[1])

\* the orders the elements of a set can be put in
Orderings(S) ==
    {f \in [1..Cardinality(S) -> S] :
        \A i, j \in 1..Cardinality(S) : i # j => f[i] # f[j]}

\* sort_values with the default kind="quicksort", which is not stable: any
\* order of S in which no element comes after one it must precede; before
\* holds the pairs <<a, b>> of which a must precede b
SortOrders(S, before) ==
    {p \in Orderings(S) :
        \A i, j \in 1..Len(p) : i < j => <<p[j], p[i]>> \notin before}

---------------------------------------------------------------------------
(* parser.py: validate *)

\* the str "Cataluna" with its n-tilde written as one symbol
Cataluna == <<"C", "a", "t", "a", "l", "u", "n~", "a">>

\* the values of column c, in row order
Column(rows, c) == [i \in 1..Len(rows) |-> rows[i][c]]

\* validate(df): [exc, ret]; nothing is returned when a statement raises
validate(df) ==
    LET total == PyInt(Sum(Column(df.rows, "disp_dem_cep_ch")))
        cataluna_count ==
            Len(SelectSeq(df.rows, LAMBDA row : row["ccaa"] = Cataluna))
        unique_ccaa == Cardinality(Range(Column(df.rows, "ccaa")))
    IN  IF "disp_dem_cep_ch" \notin Range(df.columns)
        THEN [exc |-> "KeyError", ret |-> NoReturn]
        ELSE IF total.exc # "none"
        THEN [exc |-> total.exc, ret |-> NoReturn]
        ELSE IF "ccaa" \notin Range(df.columns)
        THEN [exc |-> "KeyError", ret |-> NoReturn]
        ELSE [exc |-> "none",
              ret |-> [row_count |->
                          [expected |-> EXPECTED_ROWS,
                           actual |-> Len(df.rows),
                           ok |-> Len(df.rows) = EXPECTED_ROWS],
                       col_count |->
                          [expected |-> EXPECTED_COLS,
                           actual |-> Len(COLUMN_NAMES),
                           ok |-> Len(df.columns) >= EXPECTED_COLS],
                       total_cep_ch_mw |->
                          [expected |-> 39643,
                           actual |-> total.val,
                           ok |-> total.val - 39643 < 100
                                  /\ 39643 - total.val < 100],
                       cataluna_nodes |->
                          [expected |-> 118,
                           actual |-> cataluna_count,
                           ok |-> cataluna_count = 118],
                       unique_ccaa |->
                          [expected |-> 18,
                           actual |-> unique_ccaa,
                           ok |-> unique_ccaa = 18]]]

---------------------------------------------------------------------------
(* analysis.py: the queries.  A frame returned by a query is              *)
(* [columns, index, rows]: index holds the row labels, which are the       *)
(* positions of the rows in the table queried until reset_index(drop=True) *)
(* renumbers them.                                                         *)

\* obj tells the object a frame is: "input" is the very table the query
\* was given, "new" a frame built by the call
NoFrame == [columns |-> <<>>, index |-> <<>>, rows |-> <<>>, obj |-> "none"]

\* an argument left at None
None == [kind |-> "None", m |-> 0, e |-> 0]

\* row[cols]
Project(row, cols) == [c \in Range(cols) |-> row[c]]

\* the frame of the rows at positions at, in that order, restricted to cols
Take(df, at, cols) ==
    [columns |-> cols, index |-> at,
     rows |-> [i \in 1..Len(at) |-> Project(df.rows[at[i]], cols)],
     obj |-> "new"]

\* reset_index(drop=True)
ResetIndex(frame) ==
    [frame EXCEPT !.index = Index(frame.rows), !.obj = "new"]

\* DataFrame.head(n), n >= 0
HeadRows(frame, n) ==
    [columns |-> frame.columns, index |-> Prefix(frame.index, n),
     rows |-> Prefix(frame.rows, n), obj |-> "new"]

\* the region predicate of filter_nodes with == in place of str.contains
RegionMaskExact(row, ccaa) ==
    IF ccaa = NA \/ ccaa = <<>> THEN TRUE ELSE row["ccaa"] = ccaa

\* if ccaa: mask &= df["ccaa"].str.contains(ccaa, case=False, na=False)
RegionMask(row, ccaa) ==
    IF ccaa = NA \/ ccaa = <<>> THEN TRUE ELSE StrContains(row["ccaa"], ccaa)

\* the mask of filter_nodes for one row
FilterMask(row, a) ==
    /\ RegionMask(row, a.ccaa)
    /\ IsPositive(a.min_mw) => FltGe(row[a.capacity_col], a.min_mw)
    /\ a.voltage_kv # None => FltEq(row["voltage_kv"], a.voltage_kv)
    /\ a.only_available => IsPositive(row[a.capacity_col])
    /\ a.only_concurso # "None"
          => row["is_concurso"] = (a.only_concurso = "True")

\* filter_nodes that hands back the table itself when no row is filtered out
filter_nodes_no_copy(df, a) ==
    IF \A i \in 1..Len(df.rows) : FilterMask(df.rows[i], a)
    THEN [exc |-> "none",
          ret |-> [columns |-> df.columns, index |-> Index(df.rows),
                   rows |-> df.rows, obj |-> "input"]]
    ELSE [exc |-> "none",
          ret |-> Take(df,
                       SelectSeq(Index(df.rows),
                                 LAMBDA i : FilterMask(df.rows[i], a)),
                       df.columns)]

\* filter_nodes(df, ccaa, min_mw, capacity_col, voltage_kv, only_available,
\*              only_concurso): [exc, ret]
filter_nodes(df, a) ==
    IF a.ccaa # NA /\ a.ccaa # <<>> /\ PatternError(a.ccaa)
    THEN [exc |-> "re.error", ret |-> NoFrame]
    ELSE [exc |-> "none",
          ret |-> Take(df,
                       SelectSeq(Index(df.rows),
                                 LAMBDA i : FilterMask(df.rows[i], a)),
                       df.columns)]

SummaryColumns ==
    <<"ccaa", "nodes", "total_mw", "avg_mw", "nodes_with_capacity",
      "nodes_blocked", "unresolved_agreement">>

\* df.groupby("ccaa"): the rows of the group of key k, in table order
Group(df, k) == SelectSeq(df.rows, LAMBDA row : row["ccaa"] = k)

\* total_mw=(capacity_col, "sum") of the group of key k, before astype(int)
GroupTotal(df, k, capacity_col) == Sum(Column(Group(df, k), capacity_col))

\* one row of the aggregate, after the two astype(int)
SummaryRow(df, k, capacity_col) ==
    LET g == Group(df, k)
    IN  [ccaa |-> k,
         nodes |-> Len(g),
         total_mw |-> AsInt(GroupTotal(df, k, capacity_col)).val,
         avg_mw |-> MeanRounded(Column(g, capacity_col)).val,
         nodes_with_capacity |->
             Len(SelectSeq(g, LAMBDA row : IsPositive(row[capacity_col]))),
         nodes_blocked |->
             Len(SelectSeq(g, LAMBDA row : IsZero(row[capacity_col]))),
         unresolved_agreement |->
             Len(SelectSeq(g, LAMBDA row :
                                 row["estado_acuerdo"] = <<"N", "O">>))]

\* sort_values("total_mw", ascending=False): a larger total first, nan last
TotalBefore(df, capacity_col, a, b) ==
    \/ FltLt(GroupTotal(df, b, capacity_col), GroupTotal(df, a, capacity_col))
    \/ /\ GroupTotal(df, a, capacity_col).kind # "nan"
       /\ GroupTotal(df, b, capacity_col).kind = "nan"

\* summary_by_region(df, capacity_col): the outcomes [exc, ret] the call can
\* have, one for each order the sort may leave groups of equal total in
summary_by_region(df, capacity_col) ==
    LET keys == Range(Column(df.rows, "ccaa"))
        bad  == \E k \in keys :
                   \/ AsInt(GroupTotal(df, k, capacity_col)).exc # "none"
                   \/ MeanRounded(Column(Group(df, k), capacity_col)).exc
                          # "none"
    IN  IF bad THEN {[exc |-> "ValueError", ret |-> NoFrame]}
        ELSE {[exc |-> "none",
               ret |-> [columns |-> SummaryColumns,
                        index |-> Index(p),
                        rows |-> [i \in 1..Len(p) |->
                                     SummaryRow(df, p[i], capacity_col)],
                        obj |-> "new"]] :
                 p \in SortOrders(keys,
                                  {ab \in keys \X keys :
                                      TotalBefore(df, capacity_col,
                                                  ab[1], ab[2])})}

\* the columns top_nodes keeps
TopColumns(capacity_col) ==
    <<"nudo", "ccaa", capacity_col, "limitante_dem_cep_ch", "voltage_kv",
      "is_concurso">>

\* sort_values(capacity_col, ascending=False): the pairs of positions of
\* which the first has the larger capacity
CapacityBefore(df, capacity_col) ==
    {ab \in (1..Len(df.rows)) \X (1..Len(df.rows)) :
        FltLt(df.rows[ab[2]][capacity_col], df.rows[ab[1]][capacity_col])}

\* top_nodes without the capacity > 0 filter
top_nodes_unfiltered(df, n, capacity_col) ==
    {[exc |-> "none",
      ret |-> ResetIndex(HeadRows(Take(df, p, TopColumns(capacity_col)), n))] :
        p \in SortOrders(1..Len(df.rows), CapacityBefore(df, capacity_col))}

\* top_nodes(df, n, capacity_col): the outcomes [exc, ret] the call can
\* have, one for each order the sort may leave rows of equal capacity in
top_nodes(df, n, capacity_col) ==
    {[exc |-> "none",
      ret |-> ResetIndex(HeadRows(Take(df, p, TopColumns(capacity_col)), n))] :
        p \in SortOrders({i \in 1..Len(df.rows) :
                             IsPositive(df.rows[i][capacity_col])},
                         CapacityBefore(df, capacity_col))}

SearchColumns ==
    <<"nudo", "ccaa", "disp_dem_cep_ch", "disp_dem_no_cep", "voltage_kv">>

\* search_nodes(df, query, limit): [exc, ret]
search_nodes(df, query, limit) ==
    IF PatternError(query)
    THEN [exc |-> "re.error", ret |-> NoFrame]
    ELSE [exc |-> "none",
          ret |-> ResetIndex(HeadRows(Take(df, FuzzyMatches(df.rows, query),
                                           SearchColumns),
                                      limit))]

BlockedColumns ==
    <<"nudo", "ccaa", "limitante_dem_cep_ch", "motivo_no_otorgable",
      "is_blocked_technical", "is_blocked_regulatory">>

\* the row filter of blocked_nodes with the reason ignored
BlockedMaskAnyReason(row, reason) == IsZero(row["disp_dem_cep_ch"])

\* the row filter of blocked_nodes
BlockedMask(row, reason) ==
    /\ IsZero(row["disp_dem_cep_ch"])
    /\ reason = "technical" => row["is_blocked_technical"]
    /\ reason = "regulatory" => row["is_blocked_regulatory"]

\* blocked_nodes(df, reason): the outcomes [exc, ret] the call can have, one
\* for each order the sort may leave rows of the same region in
blocked_nodes(df, reason) ==
    {[exc |-> "none", ret |-> ResetIndex(Take(df, p, BlockedColumns))] :
        p \in SortOrders({i \in 1..Len(df.rows) :
                             BlockedMask(df.rows[i], reason)},
                         {ab \in (1..Len(df.rows)) \X (1..Len(df.rows)) :
                             StrLt(df.rows[ab[1]]["ccaa"],
                                   df.rows[ab[2]]["ccaa"])})}

\* the values counted by binding_criteria_distribution, "" not left out
CountedValuesAll(df, criteria_col) == Range(Column(df.rows, criteria_col))

\* df[df[criteria_col] != ""][criteria_col]: the values counted
CountedValues(df, criteria_col) ==
    Range(Column(df.rows, criteria_col)) \ {<<>>}

\* the number of rows holding value v in column criteria_col
ValueCount(df, criteria_col, v) ==
    Len(SelectSeq(df.rows, LAMBDA row : row[criteria_col] = v))

\* binding_criteria_distribution(df, criteria_col): the outcomes [exc, ret]
\* the call can have, one for each order value_counts may leave values of
\* equal count in
binding_criteria_distribution(df, criteria_col) ==
    {[exc |-> "none",
      ret |-> [columns |-> <<"criterion", "nodes">>,
               index |-> Index(p),
               rows |-> [i \in 1..Len(p) |->
                            [criterion |-> p[i],
                             nodes |-> ValueCount(df, criteria_col, p[i])]],
               obj |-> "new"]] :
        p \in SortOrders(CountedValues(df, criteria_col),
                         {ab \in CountedValues(df, criteria_col)
                                 \X CountedValues(df, criteria_col) :
                             ValueCount(df, criteria_col, ab[1])
                                 > ValueCount(df, criteria_col, ab[2])})}

---------------------------------------------------------------------------
(* analysis.py: generate_report.  The text returned is the sequence of its *)
(* lines.  A line is [fmt, args]: fmt is the fixed text of the f-string     *)
(* with {} where a value is formatted, args are the formatted values as     *)
(* strs.  The em dash U+2014 is written "EMDASH" as a symbol and " - " in   *)
(* fixed text.                                                              *)

\* the criterion prefixes, spelled out
WSCR == <<"W", "S", "C", "R">>
Est_Dem == <<"E", "s", "t", "_", "D", "e", "m">>
Est_Alm == <<"E", "s", "t", "_", "A", "l", "m">>
Din1 == <<"D", "i", "n", "1">>
Din2 == <<"D", "i", "n", "2">>
Nudo == <<"_", "N", "u", "d", "o">>
Zona == <<"_", "Z", "o", "n", "a">>

\* str.startswith(p)
StartsWith(s, p) == Len(p) <= Len(s) /\ SubSeq(s, 1, Len(p)) = p

\* str.split(sep)
RECURSIVE Split(_, _)
Split(s, sep) ==
    IF \A i \in 1..Len(s) : s[i] # sep THEN <<s>>
    ELSE LET k == CHOOSE i \in 1..Len(s) :
                      s[i] = sep /\ \A j \in 1..(i - 1) : s[j] # sep
         IN  <<SubSeq(s, 1, k - 1)>> \o Split(SubSeq(s, k + 1, Len(s)), sep)

\* sep.join(parts)
RECURSIVE Join(_, _)
Join(parts, sep) ==
    IF parts = <<>> THEN <<>>
    ELSE IF Len(parts) = 1 THEN parts[1]
    ELSE parts[1] \o sep \o Join(Tail(parts), sep)

DigitChars == <<"0", "1", "2", "3", "4", "5", "6", "7", "8", "9">>

\* str(n) of n >= 0
RECURSIVE Decimal(_)
Decimal(n) ==
    IF n < 10 THEN <<DigitChars[n + 1]>>
    ELSE Decimal(n \div 10) \o <<DigitChars[(n % 10) + 1]>>

\* the digits of n >= 0 in groups of three
RECURSIVE Grouped(_)
Grouped(n) ==
    IF n < 1000 THEN Decimal(n)
    ELSE Grouped(n \div 1000)
         \o <<",", DigitChars[((n \div 100) % 10) + 1],
              DigitChars[((n \div 10) % 10) + 1], DigitChars[(n % 10) + 1]>>

\* f"{val:,}"
FormatComma(val) ==
    IF val < 0 THEN <<"-">> \o Grouped(0 - val) ELSE Grouped(val)

\* f"{val}" of an int
FormatInt(val) ==
    IF val < 0 THEN <<"-">> \o Decimal(0 - val) ELSE Decimal(val)

_mw(val) == FormatComma(val) \o <<" MW">>

\* the context of a prefix: its first sentence, as one symbol
_criterion_context(p) ==
    CASE p = WSCR ->
           <<"Not enough synchronous generation nearby to anchor voltage">>
      [] p = Est_Dem ->
           <<"Thermal capacity of lines or transformers serving demand">>
      [] p = Est_Alm ->
           <<"Thermal capacity of lines or transformers serving storage">>
      [] p = Din1 ->
           <<"The zone cannot absorb more load">>
      [] p = Din2 ->
           <<"Voltage recovery after faults is too slow in this zone">>

\* _criterion_names.get(code, code): the name as one symbol
_criterion_names(code) ==
    CASE code = WSCR \o Nudo -> <<"WSCR (short-circuit ratio) at this node">>
      [] code = WSCR \o Zona ->
           <<"WSCR (short-circuit ratio) in the surrounding zone">>
      [] code = Est_Dem \o Nudo ->
           <<"steady-state demand capacity at this node">>
      [] code = Est_Dem \o Zona ->
           <<"steady-state demand capacity in the surrounding zone">>
      [] code = Est_Alm \o Nudo ->
           <<"steady-state storage capacity at this node">>
      [] code = Est_Alm \o Zona ->
           <<"steady-state storage capacity in the surrounding zone">>
      [] code = Din1 \o Zona ->
           <<"transient stability (dynamic criterion 1) in the zone">>
      [] code = Din2 \o Zona ->
           <<"transient stability (dynamic criterion 2) in the zone">>
      [] OTHER -> code

\* [c.strip() for c in code.split("/")] if "/" in code else [code]
SubCodes(code) ==
    IF \E i \in 1..Len(code) : code[i] = "/"
    THEN [i \in 1..Len(Split(code, "/")) |-> Strip(Split(code, "/")[i])]
    ELSE <<code>>

_crit_name(code) ==
    IF code = <<>> THEN <<"not reported">>
    ELSE IF \E i \in 1..Len(code) : code[i] = "/"
    THEN Join([i \in 1..Len(SubCodes(code)) |->
                  _criterion_names(SubCodes(code)[i])],
              <<" combined with ">>)
    ELSE _criterion_names(code)

\* the if/elif chain on c.startswith: the prefix recognised, <<>> when none
PrefixOf(c) ==
    IF StartsWith(c, WSCR) THEN WSCR
    ELSE IF StartsWith(c, Est_Dem) THEN Est_Dem
    ELSE IF StartsWith(c, Est_Alm) THEN Est_Alm
    ELSE IF StartsWith(c, Din1) THEN Din1
    ELSE IF StartsWith(c, Din2) THEN Din2
    ELSE <<>>

\* the margin a prefix refers to
MarginOf(p, margins) ==
    CASE p = WSCR -> margins.WSCR_margin
      [] p = Est_Dem -> margins.Est_Dem_margin
      [] p = Est_Alm -> margins.Est_Alm_margin
      [] p = Din1 -> margins.Din1_margin
      [] p = Din2 -> margins.Din2_margin

\* min(values)
MinOf(values) ==
    CHOOSE v \in {values[i] : i \in 1..Len(values)} :
        \A i \in 1..Len(values) : v <= values[i]

_margin_for_criterion_first(code, margins) ==
    LET prefixes == SelectSeq([i \in 1..Len(SubCodes(code)) |->
                                  PrefixOf(SubCodes(code)[i])],
                              LAMBDA p : p # <<>>)
    IN  IF code = <<>> \/ prefixes = <<>> THEN <<"EMDASH">>
        ELSE FormatComma(MarginOf(prefixes[1], margins))

_margin_for_criterion(code, margins) ==
    LET prefixes == SelectSeq([i \in 1..Len(SubCodes(code)) |->
                                  PrefixOf(SubCodes(code)[i])],
                              LAMBDA p : p # <<>>)
        values   == [i \in 1..Len(prefixes) |-> MarginOf(prefixes[i], margins)]
    IN  IF code = <<>> THEN <<"EMDASH">>
        ELSE IF values # <<>> THEN FormatComma(MinOf(values))
        ELSE <<"EMDASH">>

\* the loop over prefixes with the set seen: first appearances, in order
Unique(prefixes) ==
    LET first == SelectSeq([i \in 1..Len(prefixes) |-> i],
                           LAMBDA i : \A j \in 1..(i - 1) :
                                          prefixes[j] # prefixes[i])
    IN  [k \in 1..Len(first) |-> prefixes[first[k]]]

_criterion_explanation_repeating(code) ==
    LET prefixes == SelectSeq([i \in 1..Len(SubCodes(code)) |->
                                  PrefixOf(SubCodes(code)[i])],
                              LAMBDA p : p # <<>>)
    IN  IF code = <<>> THEN <<>>
        ELSE Join([i \in 1..Len(prefixes) |-> _criterion_context(prefixes[i])],
                  <<" ">>)

_criterion_explanation(code) ==
    LET prefixes == SelectSeq([i \in 1..Len(SubCodes(code)) |->
                                  PrefixOf(SubCodes(code)[i])],
                              LAMBDA p : p # <<>>)
        unique   == Unique(prefixes)
    IN  IF code = <<>> THEN <<>>
        ELSE Join([i \in 1..Len(unique) |-> _criterion_context(unique[i])],
                  <<" ">>)

Line(fmt, args) == [fmt |-> fmt, args |-> args]

Blank == Line("", <<>>)

\* lines.append(x) when cond holds
When(cond, line) == IF cond THEN <<line>> ELSE <<>>

\* a section: its title, a blank line, the bullets and a blank line, when
\* there is a bullet
Section(title, bullets) ==
    IF bullets = <<>> THEN <<>>
    ELSE <<Line(title, <<>>), Blank>> \o bullets \o <<Blank>>

\* 1. the header, which holds a line break when there is a substation code
ReportHeader(d, voltage) ==
    IF d.cod_subestacion # <<>>
    THEN <<Line("## {} - {} ({} kV)  ",
                <<d.nudo, d.ccaa, FormatInt(voltage)>>),
           Line("Substation code: {}", <<d.cod_subestacion>>)>>
    ELSE <<Line("## {} - {} ({} kV)",
                <<d.nudo, d.ccaa, FormatInt(voltage)>>)>>

\* one row of the status table
StatusRow(fmt, mw, crit, margins) ==
    Line(fmt, <<FormatComma(mw),
                IF crit # <<>> THEN crit ELSE <<"EMDASH">>,
                _margin_for_criterion(crit, margins)>>)

\* 2. the status table
StatusTable(d) ==
    <<Line("| Type | Available (MW) | Binding criterion | Margin (MW) |", <<>>),
      Line("|------|---------------:|-------------------|------------:|", <<>>),
      StatusRow("| CEP CH demand | {} | {} | {} |", d.available.CEP_CH,
                d.binding_criteria.CEP_CH, d.margins),
      StatusRow("| CEP SH demand | {} | {} | {} |", d.available.CEP_SH,
                d.binding_criteria.CEP_SH, d.margins),
      StatusRow("| NO CEP demand | {} | {} | {} |", d.available.NO_CEP,
                d.binding_criteria.NO_CEP, d.margins),
      StatusRow("| CEP storage | {} | {} | {} |", d.available.Storage_CEP,
                d.binding_criteria.Storage_CEP, d.margins),
      StatusRow("| NO CEP storage | {} | {} | {} |",
                d.available.Storage_NO_CEP,
                d.binding_criteria.Storage_NO_CEP, d.margins),
      Blank>>

\* 3. Why this limit?
WhyThisLimit(d) ==
    LET primary_crit == d.binding_criteria.CEP_CH
        explanation  == _criterion_explanation(primary_crit)
    IN  IF explanation # <<>>
        THEN <<Line("### Why this limit?", <<>>), Blank,
               Line("The binding criterion for CEP CH demand is **{}**.",
                    <<_crit_name(primary_crit)>>),
               Blank,
               Line("{}", <<explanation>>),
               Blank>>
        ELSE <<>>

\* 4. Grid connection
GridConnection(d) ==
    Section("### Grid connection",
        When(d.positions.gen_E,
             Line("- Generation/storage bay (existing): yes", <<>>))
        \o When(d.positions.gen_P,
                Line("- Generation/storage bay (planned): yes", <<>>))
        \o When(d.positions.con_E, Line("- Demand bay (existing): yes", <<>>))
        \o When(d.positions.con_P, Line("- Demand bay (planned): yes", <<>>))
        \o When(d.positions.dist_E,
                Line("- Distribution connection (existing): yes", <<>>))
        \o When(d.positions.dist_P,
                Line("- Distribution connection (planned): yes", <<>>))
        \o When(~d.has_demand_bay,
                Line("- **No demand bay** - physical connection needed",
                     <<>>)))

\* 5. Granted & pending
GrantedAndPending(d) ==
    Section("### Granted & pending",
        When(d.otorgada_dem_rdt > 0,
             Line("- Granted demand (RdT): {}", <<_mw(d.otorgada_dem_rdt)>>))
        \o When(d.otorgada_alm_rdt > 0,
                Line("- Granted storage (RdT): {}",
                     <<_mw(d.otorgada_alm_rdt)>>))
        \o When(d.pendiente_dem_rdt > 0,
                Line("- Pending demand: {}", <<_mw(d.pendiente_dem_rdt)>>))
        \o When(d.pendiente_alm_rdt > 0,
                Line("- Pending storage: {}", <<_mw(d.pendiente_alm_rdt)>>)))

\* 6. Administrative, which always has its reference-value bullet
Administrative(d) ==
    LET ng_items ==
            (IF d.non_grantable.CEP_CH > 0
             THEN <<<<"CEP CH: ">> \o _mw(d.non_grantable.CEP_CH)>>
             ELSE <<>>)
            \o (IF d.non_grantable.NO_CEP > 0
                THEN <<<<"NO CEP: ">> \o _mw(d.non_grantable.NO_CEP)>>
                ELSE <<>>)
        reason == IF d.motivo_no_otorgable # <<>>
                  THEN <<" - ">> \o d.motivo_no_otorgable ELSE <<>>
    IN  Section("### Administrative",
            <<IF d.estado_acuerdo = <<"S", "I">>
              THEN Line("- Reference value: {} - agreement **reached**",
                        <<_mw(d.valor_referencia)>>)
              ELSE IF d.estado_acuerdo = <<"N", "O">>
              THEN Line("- Reference value: {} - agreement **NOT reached**",
                        <<_mw(d.valor_referencia)>>)
              ELSE Line("- Reference value agreement: N/A (no distribution interface)",
                        <<>>)>>
            \o When(d.is_concurso,
                    Line("- Subject to **competitive tender** (concurso)",
                         <<>>))
            \o When(ng_items # <<>>,
                    Line("- Non-grantable: {}{}",
                         <<Join(ng_items, <<",", " ">>), reason>>)))

\* a value that is neither empty nor "N/A"
Reported(v) == v # <<>> /\ v # <<"N", "/", "A">>

\* 7. Alerts
Alerts(d) ==
    Section("### Alerts",
        (IF Reported(d.wscr_alertas)
         THEN IF Reported(d.wscr_binudos)
              THEN <<Line("- WSCR alert: {} (shared with {})",
                          <<d.wscr_alertas, d.wscr_binudos>>)>>
              ELSE <<Line("- WSCR alert: {}", <<d.wscr_alertas>>)>>
         ELSE When(Reported(d.wscr_binudos),
                   Line("- WSCR shared node: {}", <<d.wscr_binudos>>)))
        \o When(d.est_dem_limit_temp \notin {<<>>, <<"N", "o">>},
                Line("- Configuration limitation: {}",
                     <<d.est_dem_limit_temp>>)))

\* generate_report(diag): [exc, text]
generate_report(d) ==
    IF "error" \in DOMAIN d
    THEN [exc |-> "none", text |-> <<Line("Error: {}", <<d.error>>)>>]
    ELSE IF PyInt(d.voltage_kv).exc # "none"
    THEN [exc |-> PyInt(d.voltage_kv).exc, text |-> <<>>]
    ELSE [exc |-> "none",
          text |-> ReportHeader(d, PyInt(d.voltage_kv).val)
                   \o <<Blank>>
                   \o StatusTable(d)
                   \o WhyThisLimit(d)
                   \o GridConnection(d)
                   \o GrantedAndPending(d)
                   \o Administrative(d)
                   \o Alerts(d)]

---------------------------------------------------------------------------
(* cli.py: the node and report commands.  A command's outcome is           *)
(* [raised, exit, stdout]: the exception that ended it ("none" when it ran *)
(* to its end, "Exit" for typer.Exit), the exit status of the process and  *)
(* the lines printed on the console.                                       *)

\* the status a command ends with: typer.Exit(1) and an exception that is
\* not caught both end the process with status 1
ExitStatus(raised) == IF raised = "none" THEN 0 ELSE 1

Outcome(raised, stdout) ==
    [raised |-> raised, exit |-> ExitStatus(raised), stdout |-> stdout]

\* the branch on "error" in diag, r being the outcome of diagnose_node:
\* the error and the candidates are printed and typer.Exit(1) is raised
ErrorBranch(r) ==
    IF r.exc # "none"
    THEN [raised |-> r.exc, stdout |-> <<>>, diag |-> NoReturn]
    ELSE IF "error" \in DOMAIN r.ret
    THEN [raised |-> "Exit",
          stdout |-> <<Line("[red]{}[/red]", <<r.ret.error>>)>>
                     \o (IF "matches" \in DOMAIN r.ret
                         THEN [i \in 1..Len(r.ret.matches) |->
                                  Line("  - {}", <<r.ret.matches[i]>>)]
                         ELSE <<>>),
          diag |-> NoReturn]
    ELSE [raised |-> "none", stdout |-> <<>>, diag |-> r.ret]

\* diagnose_node on the outcome l of _load(), and the error branch
LookupIn(l, name) ==
    IF l.exc # "none"
    THEN [raised |-> l.exc, stdout |-> <<>>, diag |-> NoReturn]
    ELSE ErrorBranch(diagnose_node(l.df, name))

\* the part both commands start with: _load(), diagnose_node and the branch
\* on "error" in diag; diag is the record the command goes on with
Lookup(f, name) == LookupIn(load_csv(f), name)

\* f"{x}" of a float that is nan or a whole number
FormatFloat(f) ==
    IF f.kind = "nan" THEN <<"n", "a", "n">>
    ELSE FormatInt(PyInt(f).val) \o <<".", "0">>

\* the summary str of the diagnostic
SummaryText(s) ==
    IF s.text = "{} MW available for CEP CH demand"
    THEN FormatInt(s.mw) \o <<" MW available for CEP CH demand">>
    ELSE IF s.text = "Technically blocked by {}"
    THEN <<"Technically blocked by ">> \o s.field
    ELSE IF s.text = "Regulatory block: {}"
    THEN <<"Regulatory block: ">> \o s.field
    ELSE <<s.text>>

Mark(flag) == IF flag THEN <<"CHECKMARK">> ELSE <<"MIDDOT">>

\* what node prints before the narrative report; a table row is a line
\* whose cells are separated by " | "
NodePanel(d) ==
    <<Line("[bold]{}[/bold] - {}", <<d.nudo, d.ccaa>>),
      Line("  Code: {}  |  Voltage: {} kV",
           <<d.cod_subestacion, FormatFloat(d.voltage_kv)>>),
      Line("  Status: {}", <<<<d.status>>>>),
      Line("  [dim]{}[/dim]", <<SummaryText(d.summary)>>),
      Line("  Positions: {} gen_E  {} gen_P  {} con_E  {} con_P  {} dist_E  {} dist_P  ",
           <<Mark(d.positions.gen_E), Mark(d.positions.gen_P),
             Mark(d.positions.con_E), Mark(d.positions.con_P),
             Mark(d.positions.dist_E), Mark(d.positions.dist_P)>>),
      Line("  [bold]Technical Margins (MW)[/bold]", <<>>),
      Line("WSCR | {} | {}",
           <<FormatComma(d.margins.WSCR), FormatComma(d.margins.WSCR_margin)>>),
      Line("Est. Demand | {} | {}",
           <<FormatComma(d.margins.Est_Dem),
             FormatComma(d.margins.Est_Dem_margin)>>),
      Line("Est. Storage | {} | {}",
           <<FormatComma(d.margins.Est_Alm),
             FormatComma(d.margins.Est_Alm_margin)>>),
      Line("Dynamic 1 (Din1) |  | {}", <<FormatComma(d.margins.Din1_margin)>>),
      Line("Dynamic 2 (Din2) |  | {}", <<FormatComma(d.margins.Din2_margin)>>),
      Line("  Reference value: {} MW", <<FormatComma(d.valor_referencia)>>),
      Line("  Agreement: {}", <<d.estado_acuerdo>>),
      Line("  Granted demand (RdT): {} MW",
           <<FormatComma(d.otorgada_dem_rdt)>>),
      Line("  Granted storage (RdT): {} MW",
           <<FormatComma(d.otorgada_alm_rdt)>>),
      Line("  Pending demand: {} MW", <<FormatComma(d.pendiente_dem_rdt)>>),
      Line("  Pending storage: {} MW", <<FormatComma(d.pendiente_alm_rdt)>>),
      Line("  [bold]Available Capacity (MW)[/bold]", <<>>),
      Line("CEP CH | {} | {}",
           <<FormatComma(d.available.CEP_CH), d.binding_criteria.CEP_CH>>),
      Line("CEP SH | {} | {}",
           <<FormatComma(d.available.CEP_SH), d.binding_criteria.CEP_SH>>),
      Line("NO CEP | {} | {}",
           <<FormatComma(d.available.NO_CEP), d.binding_criteria.NO_CEP>>),
      Line("Storage CEP | {} | {}",
           <<FormatComma(d.available.Storage_CEP),
             d.binding_criteria.Storage_CEP>>),
      Line("Storage NO CEP | {} | {}",
           <<FormatComma(d.available.Storage_NO_CEP),
             d.binding_criteria.Storage_NO_CEP>>)>>
    \o When(d.wscr_alertas # <<>>,
            Line("  [yellow]WSCR Alert: {}[/yellow]", <<d.wscr_alertas>>))
    \o When(d.motivo_no_otorgable # <<>>,
            Line("  [yellow]Non-grantable: {}[/yellow]",
                 <<d.motivo_no_otorgable>>))
    \o When(d.is_concurso,
            Line("  [yellow]Competitive tender (concurso) node[/yellow]",
                 <<>>))
    \o When(d.est_dem_limit_temp \notin {<<>>, <<"N", "o">>},
            Line("  [yellow]Config limitation: {}[/yellow]",
                 <<d.est_dem_limit_temp>>))
    \o <<Line("[bold]-- Report --[/bold]", <<>>)>>

\* console.print(generate_report(diag)) after the lines printed so far, g
\* being the outcome of generate_report, and the lines printed after it
PrintReport(printed, g, after) ==
    IF g.exc # "none" THEN Outcome(g.exc, printed)
    ELSE Outcome("none", printed \o g.text \o after)

\* node after the lookup k
NodeAfter(k) ==
    IF k.raised # "none" THEN Outcome(k.raised, k.stdout)
    ELSE PrintReport(NodePanel(k.diag), generate_report(k.diag), <<Blank>>)

\* report after the lookup k
ReportAfter(k) ==
    IF k.raised # "none" THEN Outcome(k.raised, k.stdout)
    ELSE PrintReport(<<>>, generate_report(k.diag), <<>>)

\* capacidad node NAME, with the file f at the default path
node(f, name) == NodeAfter(Lookup(f, name))

\* capacidad report NAME, with the file f at the default path
report(f, name) == ReportAfter(Lookup(f, name))

---------------------------------------------------------------------------
(* The source files the loader is run on *)

\* the four title lines above the data
HeaderLines ==
    <<<< <<"t", "1">> >>, << <<"t", "2">> >>, << <<"t", "3">> >>,
      << <<"t", "4">> >>>>

\* a data line of width fields: the named cells, every other cell empty,
\* fields beyond the registry filled with "x"
RawRow(width, cells) ==
    [i \in 1..width |->
        IF i > Len(COLUMN_NAMES) THEN <<"x">>
        ELSE IF COLUMN_NAMES[i] \in DOMAIN cells THEN cells[COLUMN_NAMES[i]]
        ELSE <<>>]

FileOf(dataLines) == [exists |-> TRUE, lines |-> HeaderLines \o dataLines]

NoFile == [exists |-> FALSE, lines |-> <<>>]

\* raw numeric cells: empty, plain, thousands separator, negative,
\* not-a-number literal, exponent
NumericCells ==
    {<<>>, <<"0">>, <<"1", ".", "3", "1", "0">>, <<"-", "5">>,
     <<"N", "A", "N">>, <<"5", "e", "-", "1">>}

CriterionCells == {<<>>, <<" ">>, <<"Din1_Zona", "/", "Est_Dem_Nudo">>}

ReasonCells == {<<>>, <<"Nudo", " ", "reservado">>}

FlagCells == {<<>>, <<"CHECKMARK">>}

PaddedFlagCells == {<<"x">>, <<" ", "CHECKMARK">>}

TenderCells == {<<"S", "I">>, <<"N", "O">>}

\* SI, NO, and the N/A that read_csv turns into a missing value
AgreementCells == {<<"S", "I">>, <<"N", "O">>, <<"N", "/", "A">>}

\* one-row files of full width whose cells vary independently
ContentRows ==
    {RawRow(EXPECTED_COLS,
            [nudo |-> <<"A", " ", "4">>,
             disp_dem_cep_ch |-> d, limitante_dem_cep_ch |-> l,
             motivo_no_otorgable |-> m, pos_con_E |-> pe, pos_con_P |-> pp,
             wscr_alertas |-> a, concurso |-> c, estado_acuerdo |-> ea,
             wscr_cap_nodal |-> w]) :
        d \in NumericCells, l \in CriterionCells, m \in ReasonCells,
        pe \in FlagCells, pp \in PaddedFlagCells,
        a \in ReasonCells, c \in TenderCells, ea \in AgreementCells,
        w \in {<<"1", "0">>, <<"N", "A", "N">>}}

NameAlphabet == {"A", "a", "B", "4", "0", " "}

\* one-row files of full width whose node name varies
NameRows(n) ==
    {RawRow(EXPECTED_COLS,
            [nudo |-> name, disp_dem_cep_ch |-> <<"7", "5", "3">>]) :
        name \in StringsUpTo(NameAlphabet, n)}

\* rows of the files of several rows
TableRows ==
    {RawRow(EXPECTED_COLS, [nudo |-> name, disp_dem_cep_ch |-> d,
                            limitante_dem_cep_ch |-> l]) :
        name \in {<<"A", "4">>, <<"a", "4", " ">>, <<"B", "A", "4">>,
                  <<"B">>},
        d \in {<<"0">>, <<"1", "0">>},
        l \in {<<"Din1_Zona">>}}

\* files whose lines are narrower or wider than the registry, or absent
OddFiles ==
    {FileOf(<<RawRow(w, [nudo |-> <<"A", " ", "4">>,
                         disp_dem_cep_ch |-> <<"1", "0">>])>>) :
        w \in {EXPECTED_COLS - 1, EXPECTED_COLS + 1, EXPECTED_COLS + 2}}
    \cup {FileOf(<<>>), [exists |-> TRUE, lines |-> <<>>], NoFile}

Files ==
    {FileOf(<<r>>) : r \in ContentRows \cup NameRows(MaxNameLen)}
    \cup {FileOf(rs) : rs \in UNION {[1..k -> TableRows] : k \in 2..MaxRows}}
    \cup OddFiles

\* the node names asked for
Queries ==
    {<<>>, <<"A", "4">>, <<"a", "4">>, <<"A">>, <<"4">>, <<"B">>, <<".">>,
     <<"A", ".", "4">>, <<"Z">>, <<"(">>}

\* raw cells handed to the cell parsers
CellAlphabet == {"0", "1", ".", " ", "N", "/", "A", "-", "e", "CHECKMARK"}

Cells == StringsUpTo(CellAlphabet, MaxLen) \cup {NA}

---------------------------------------------------------------------------
(* The state machine *)

NotLoaded == [exc |-> "unset", msg |-> <<>>, df |-> NoTable]
NotDiagnosed == [exc |-> "unset", at |-> 0, ret |-> NoReturn, query |-> <<>>]
NotParsed == [fn |-> "unset", val |-> FALSE]
NotCalled == [fn |-> "unset", args |-> <<>>, exc |-> "unset", ret |-> NoFrame]

Init ==
    /\ file \in Files
    /\ loaded = NotLoaded
    /\ ioTrace = <<>>
    /\ diag = NotDiagnosed
    /\ cell = NA
    /\ out = NotParsed
    /\ res = NotCalled

\* df = load_csv(filepath)
LoadCsv ==
    /\ loaded.exc = "unset"
    /\ LET r == load_csv(file)
       IN  /\ loaded' = [exc |-> r.exc, msg |-> r.msg, df |-> r.df]
           /\ ioTrace' = r.io
    /\ UNCHANGED <<file, diag, cell, out, res>>

\* diagnose_node(df, q) on the table load_csv returned
DiagnoseNode(q) ==
    /\ loaded.exc = "none"
    /\ diag.exc = "unset"
    /\ LET r == diagnose_node(loaded.df, q)
       IN  diag' = [exc |-> r.exc, at |-> r.at, ret |-> r.ret, query |-> q]
    /\ UNCHANGED <<file, loaded, ioTrace, cell, out, res>>

Next ==
    \/ LoadCsv
    \/ \E q \in Queries : DiagnoseNode(q)

Spec == Init /\ [][Next]_vars

(* The cell parsers on their own *)

InitParse ==
    /\ file = NoFile
    /\ loaded = NotLoaded
    /\ ioTrace = <<>>
    /\ diag = NotDiagnosed
    /\ cell \in Cells
    /\ out = NotParsed
    /\ res = NotCalled

\* _parse_num(cell)
CallParseNum ==
    /\ out.fn = "unset"
    /\ out' = [fn |-> "_parse_num", val |-> _parse_num(cell)]
    /\ UNCHANGED <<file, loaded, ioTrace, diag, cell, res>>

\* _parse_checkmark(cell)
CallParseCheckmark ==
    /\ out.fn = "unset"
    /\ out' = [fn |-> "_parse_checkmark", val |-> _parse_checkmark(cell)]
    /\ UNCHANGED <<file, loaded, ioTrace, diag, cell, res>>

NextParse == CallParseNum \/ CallParseCheckmark

SpecParse == InitParse /\ [][NextParse]_vars

(* The queries on a loaded table *)

\* rows of the tables the queries are run on: equal capacities under
\* different names, regions differing in case only, an empty region,
\* fractional, infinite, negative and not-a-number capacities
QueryRows ==
    {RawRow(EXPECTED_COLS,
            [nudo |-> <<"A", "4">>, ccaa |-> <<"G", "a", "l", "i", "c", "i", "a">>,
             disp_dem_cep_ch |-> <<"1", "0">>, disp_dem_no_cep |-> <<"5">>,
             concurso |-> <<"S", "I">>, estado_acuerdo |-> <<"N", "O">>]),
     RawRow(EXPECTED_COLS,
            [nudo |-> <<"B", "A", "4">>,
             ccaa |-> <<"g", "a", "l", "i", "c", "i", "a">>,
             disp_dem_cep_ch |-> <<"1", "0", "5", "e", "-", "1">>,
             estado_acuerdo |-> <<"S", "I">>]),
     RawRow(EXPECTED_COLS,
            [nudo |-> <<"B">>, ccaa |-> <<"A", "r", "a", "g", "o", "n">>,
             disp_dem_cep_ch |-> <<"0">>,
             limitante_dem_cep_ch |-> <<"Din1_Zona">>,
             disp_dem_no_cep |-> <<"N", "A", "N">>]),
     RawRow(EXPECTED_COLS,
            [nudo |-> <<"A", " ", "1">>,
             ccaa |-> <<"g", "a", "l", "i", "c", "i", "a">>,
             disp_dem_cep_ch |-> <<"0">>,
             motivo_no_otorgable |-> <<"Nudo", " ", "reservado">>,
             disp_dem_no_cep |-> <<"-", "5">>]),
     RawRow(EXPECTED_COLS,
            [nudo |-> <<"B", "4">>, ccaa |-> <<>>,
             disp_dem_cep_ch |-> <<"5", "e", "-", "1">>,
             disp_dem_no_cep |-> <<"5">>]),
     RawRow(EXPECTED_COLS,
            [nudo |-> <<"a", "4", " ">>,
             ccaa |-> <<"G", "a", "l", "i", "c", "i", "a">>,
             disp_dem_cep_ch |-> <<"1", "0">>,
             limitante_dem_cep_ch |-> <<"WSCR_Nudo">>,
             concurso |-> <<"S", "I">>]),
     RawRow(EXPECTED_COLS,
            [nudo |-> <<"A">>, ccaa |-> <<"G", "a", "l", "i", "c", "i", "a">>,
             disp_dem_cep_ch |-> <<"i", "n", "f">>])}

Galicia == <<"G", "a", "l", "i", "c", "i", "a">>

QueryFiles ==
    {FileOf(rs) : rs \in UNION {[1..k -> QueryRows] : k \in 1..MaxTableRows}}

CapacityColumns == {"disp_dem_cep_ch", "disp_dem_no_cep"}

\* the arguments filter_nodes is called with
FilterArgs ==
    [ccaa : {NA, <<"G", "a", "l", "i", "c", "i", "a">>, <<".">>},
     min_mw : {Zero, Float(1, 1)},
     capacity_col : {"disp_dem_cep_ch"},
     voltage_kv : {None, Float(4, 0)},
     only_available : BOOLEAN,
     only_concurso : {"None", "True"}]
    \cup
    [ccaa : {NA}, min_mw : {Float(5, 0)}, capacity_col : CapacityColumns,
     voltage_kv : {None}, only_available : {FALSE},
     only_concurso : {"None", "False"}]
    \cup
    [ccaa : {<<"(">>}, min_mw : {Zero}, capacity_col : {"disp_dem_cep_ch"},
     voltage_kv : {None}, only_available : {FALSE}, only_concurso : {"None"}]

\* the arguments search_nodes is called with
SearchQueries == {<<>>, <<"a", "4">>, <<"B">>, <<".">>, <<"(">>}

\* the reason blocked_nodes is called with
Reasons == {"None", "technical", "regulatory", "all"}

InitQuery ==
    /\ file \in QueryFiles
    /\ loaded = NotLoaded
    /\ ioTrace = <<>>
    /\ diag = NotDiagnosed
    /\ cell = NA
    /\ out = NotParsed
    /\ res = NotCalled

\* validate(df)
Validate ==
    /\ loaded.exc = "none"
    /\ res.fn = "unset"
    /\ LET r == validate(loaded.df)
       IN  res' = [fn |-> "validate", args |-> <<>>, exc |-> r.exc,
                   ret |-> r.ret]
    /\ UNCHANGED <<file, loaded, ioTrace, diag, cell, out>>

\* filter_nodes(df, **a)
FilterNodes(a) ==
    /\ loaded.exc = "none"
    /\ res.fn = "unset"
    /\ LET r == filter_nodes(loaded.df, a)
       IN  res' = [fn |-> "filter_nodes", args |-> a, exc |-> r.exc,
                   ret |-> r.ret]
    /\ UNCHANGED <<file, loaded, ioTrace, diag, cell, out>>

\* summary_by_region(df, capacity_col)
SummaryByRegion(capacity_col) ==
    /\ loaded.exc = "none"
    /\ res.fn = "unset"
    /\ \E r \in summary_by_region(loaded.df, capacity_col) :
          res' = [fn |-> "summary_by_region",
                  args |-> [capacity_col |-> capacity_col],
                  exc |-> r.exc, ret |-> r.ret]
    /\ UNCHANGED <<file, loaded, ioTrace, diag, cell, out>>

\* top_nodes(df, n, capacity_col)
TopNodes(n, capacity_col) ==
    /\ loaded.exc = "none"
    /\ res.fn = "unset"
    /\ \E r \in top_nodes(loaded.df, n, capacity_col) :
          res' = [fn |-> "top_nodes",
                  args |-> [n |-> n, capacity_col |-> capacity_col],
                  exc |-> r.exc, ret |-> r.ret]
    /\ UNCHANGED <<file, loaded, ioTrace, diag, cell, out>>

\* search_nodes(df, query, limit)
SearchNodes(query, limit) ==
    /\ loaded.exc = "none"
    /\ res.fn = "unset"
    /\ LET r == search_nodes(loaded.df, query, limit)
       IN  res' = [fn |-> "search_nodes",
                   args |-> [query |-> query, limit |-> limit],
                   exc |-> r.exc, ret |-> r.ret]
    /\ UNCHANGED <<file, loaded, ioTrace, diag, cell, out>>

\* blocked_nodes(df, reason)
BlockedNodes(reason) ==
    /\ loaded.exc = "none"
    /\ res.fn = "unset"
    /\ \E r \in blocked_nodes(loaded.df, reason) :
          res' = [fn |-> "blocked_nodes", args |-> [reason |-> reason],
                  exc |-> r.exc, ret |-> r.ret]
    /\ UNCHANGED <<file, loaded, ioTrace, diag, cell, out>>

\* the criterion columns binding_criteria_distribution is called with
CriteriaColumns == {"limitante_dem_cep_ch", "limitante_dem_cep_sh"}

\* binding_criteria_distribution(df, criteria_col)
BindingCriteriaDistribution(criteria_col) ==
    /\ loaded.exc = "none"
    /\ res.fn = "unset"
    /\ \E r \in binding_criteria_distribution(loaded.df, criteria_col) :
          res' = [fn |-> "binding_criteria_distribution",
                  args |-> [criteria_col |-> criteria_col],
                  exc |-> r.exc, ret |-> r.ret]
    /\ UNCHANGED <<file, loaded, ioTrace, diag, cell, out>>

NextQuery ==
    \/ LoadCsv
    \/ Validate
    \/ \E a \in FilterArgs : FilterNodes(a)
    \/ \E c \in CapacityColumns : SummaryByRegion(c)
    \/ \E n \in 0..MaxTableRows, c \in CapacityColumns : TopNodes(n, c)
    \/ \E q \in SearchQueries, l \in 0..MaxTableRows : SearchNodes(q, l)
    \/ \E r \in Reasons : BlockedNodes(r)
    \/ \E c \in CriteriaColumns : BindingCriteriaDistribution(c)

SpecQuery == InitQuery /\ [][NextQuery]_vars

(* A session: queries and diagnostics one after another on one table *)

SessionFiles ==
    {FileOf(rs) : rs \in UNION {[1..k -> QueryRows] : k \in 1..MaxRows}}

SessionFilterArgs ==
    [ccaa : {NA, Galicia, <<".">>, <<"(">>}, min_mw : {Zero, Float(1, 1)},
     capacity_col : {"disp_dem_cep_ch"}, voltage_kv : {None},
     only_available : {FALSE}, only_concurso : {"None"}]

SessionQueries == {<<>>, <<"A", "4">>, <<"a">>, <<"Z">>, <<".">>, <<"(">>}

InitSession ==
    /\ file \in SessionFiles
    /\ loaded = NotLoaded
    /\ ioTrace = <<>>
    /\ diag = NotDiagnosed
    /\ cell = NA
    /\ out = NotParsed
    /\ res = NotCalled

\* the caller drops the results it holds, and goes on with the same table
Discard ==
    /\ res.fn # "unset" \/ diag.exc # "unset"
    /\ res' = NotCalled
    /\ diag' = NotDiagnosed
    /\ UNCHANGED <<file, loaded, ioTrace, cell, out>>

NextSession ==
    \/ LoadCsv
    \/ \E q \in SessionQueries : DiagnoseNode(q)
    \/ \E a \in SessionFilterArgs : FilterNodes(a)
    \/ SummaryByRegion("disp_dem_cep_ch")
    \/ \E n \in 1..MaxRows : TopNodes(n, "disp_dem_cep_ch")
    \/ \E q \in SessionQueries : SearchNodes(q, MaxRows)
    \/ \E r \in Reasons : BlockedNodes(r)
    \/ BindingCriteriaDistribution("limitante_dem_cep_ch")
    \/ Discard

SpecSession == InitSession /\ [][NextSession]_vars

(* Reports: diagnostics rendered by generate_report and by the commands *)

\* binding criterion codes: none, single, combined with a shared prefix,
\* combined with blanks and a repeat, combined, and an unknown code
CodeCells ==
    {<<>>,
     WSCR \o Nudo,
     Est_Dem \o Nudo \o <<"/">> \o Est_Dem \o Zona,
     Din1 \o Zona \o <<" ", "/", " ">> \o WSCR \o Nudo \o <<"/">>
        \o Din1 \o Zona,
     Est_Alm \o Nudo \o <<"/">> \o Din2 \o Zona,
     <<"O", "t", "r", "o">>}

ReportRows ==
    {RawRow(EXPECTED_COLS,
            [nudo |-> name, ccaa |-> <<"G">>, cod_subestacion |-> cod,
             disp_dem_cep_ch |-> d, limitante_dem_cep_ch |-> l,
             disp_alm_cep |-> <<"5">>, limitante_alm_cep |-> la,
             wscr_margen |-> w, est_dem_margen |-> <<"2", "0">>,
             est_alm_margen |-> <<"4", "0">>, din1_margen |-> <<"7">>,
             din2_margen |-> <<"3", "0">>,
             valor_referencia |-> <<"1", ".", "3", "1", "0">>,
             estado_acuerdo |-> <<"N", "O">>,
             no_otorg_dem_cep_ch |-> <<"3">>,
             motivo_no_otorgable |-> <<"Nudo", " ", "reservado">>]) :
        name \in {<<"A", "4">>, <<"B", "A", "4">>, <<"A">>},
        cod \in {<<>>, <<"S", "1">>},
        d \in {<<"1", ".", "3", "1", "0">>},
        l \in CodeCells,
        la \in {<<>>, Est_Dem \o Zona \o <<"/">> \o WSCR \o Zona},
        w \in {<<"1", ".", "3", "1", "0">>, <<"-", "5">>}}

\* tables of two rows whose names make a query ambiguous
ReportPairs ==
    {<<RawRow(EXPECTED_COLS, [nudo |-> <<"A", "4">>,
                              limitante_dem_cep_ch |-> l]),
       RawRow(EXPECTED_COLS, [nudo |-> n])>> :
        l \in CodeCells, n \in {<<"B", "A", "4">>, <<"A">>, <<"B">>}}

ReportFiles ==
    {FileOf(<<r>>) : r \in ReportRows}
    \cup {FileOf(rs) : rs \in ReportPairs}
    \cup {NoFile}

ReportQueries == {<<"A", "4">>, <<"A">>, <<"a">>, <<"Z">>}

InitReport ==
    /\ file \in ReportFiles
    /\ loaded = NotLoaded
    /\ ioTrace = <<>>
    /\ diag = NotDiagnosed
    /\ cell = NA
    /\ out = NotParsed
    /\ res = NotCalled

\* generate_report(diag) on the dict diagnose_node returned
GenerateReport ==
    /\ diag.exc = "none"
    /\ res.fn = "unset"
    /\ LET r == generate_report(diag.ret)
       IN  res' = [fn |-> "generate_report", args |-> <<diag.query>>,
                   exc |-> r.exc, ret |-> r.text]
    /\ UNCHANGED <<file, loaded, ioTrace, diag, cell, out>>

\* the outcome r of the command fn run with name
Ran(fn, name, r) ==
    [fn |-> fn, args |-> <<name>>, exc |-> r.raised, ret |-> r]

\* capacidad node NAME, in a process of its own
NodeCommand(name) ==
    /\ loaded.exc = "unset"
    /\ res.fn = "unset"
    /\ res' = Ran("node", name, node(file, name))
    /\ UNCHANGED <<file, loaded, ioTrace, diag, cell, out>>

\* capacidad report NAME, in a process of its own
ReportCommand(name) ==
    /\ loaded.exc = "unset"
    /\ res.fn = "unset"
    /\ res' = Ran("report", name, report(file, name))
    /\ UNCHANGED <<file, loaded, ioTrace, diag, cell, out>>

NextReport ==
    \/ LoadCsv
    \/ \E q \in ReportQueries : DiagnoseNode(q)
    \/ GenerateReport

SpecReport == InitReport /\ [][NextReport]_vars

(* The commands, each run in a process of its own on the file at the       *)
(* default path                                                            *)

NextCommand ==
    \/ \E name \in ReportQueries : NodeCommand(name)
    \/ \E name \in ReportQueries : ReportCommand(name)

SpecCommand == InitReport /\ [][NextCommand]_vars

---------------------------------------------------------------------------
(* Claims *)

\* a table has been returned by load_csv
Loaded == loaded.exc = "none"

TableRowsLoaded == loaded.df.rows

\* C1: after load, in every row is_blocked_technical implies that
\* disp_dem_cep_ch equals 0, and has_demand_bay is the OR of pos_con_E and
\* pos_con_P.
C1_BlockedImpliesZeroAndBayIsOr ==
    Loaded =>
        \A r \in 1..Len(TableRowsLoaded) :
            LET row == TableRowsLoaded[r]
            IN  /\ row["is_blocked_technical"] = TRUE
                    => row["disp_dem_cep_ch"] = Zero
                /\ row["has_demand_bay"]
                    = (row["pos_con_E"] = TRUE \/ row["pos_con_P"] = TRUE)

\* a loaded row that is technically blocked and has a demand bay
C1_Witness ==
    /\ Loaded
    /\ \E r \in 1..Len(TableRowsLoaded) :
          /\ TableRowsLoaded[r]["is_blocked_technical"]
          /\ TableRowsLoaded[r]["has_demand_bay"]
          /\ ~TableRowsLoaded[r]["pos_con_E"]

\* the status the priority order gives a row
StatusByPriority(row) ==
    IF IsPositive(row["disp_dem_cep_ch"]) THEN "AVAILABLE"
    ELSE IF row["limitante_dem_cep_ch"] # <<>> THEN "BLOCKED_TECHNICAL"
    ELSE IF row["motivo_no_otorgable"] # <<>> THEN "BLOCKED_REGULATORY"
    ELSE "BLOCKED_UNKNOWN"

\* C2: diagnose_node gives every resolved row exactly one status, the first
\* that applies of AVAILABLE (capacity > 0), BLOCKED_TECHNICAL (a binding
\* criterion), BLOCKED_REGULATORY (a non-grantable reason), BLOCKED_UNKNOWN;
\* and for an AVAILABLE row available.CEP_CH equals the row's capacity.
C2_StatusByPriority ==
    diag.at # 0 =>
        LET row == TableRowsLoaded[diag.at]
        IN  /\ diag.exc = "none"
            /\ "status" \in DOMAIN diag.ret
            /\ diag.ret.status = StatusByPriority(row)
            /\ diag.ret.status = "AVAILABLE"
                => Normal(diag.ret.available.CEP_CH, 0) = row["disp_dem_cep_ch"]

\* q occurs in s as a literal text, letter case ignored
ContainsText(s, q) ==
    \E k \in 0..(Len(s) - Len(q)) :
        \A i \in 1..Len(q) : UpperChar(q[i]) = UpperChar(s[k + i])

\* diagnose_node returned the diagnostic of the row at position i
Diagnosed(i) ==
    /\ diag.exc = "none"
    /\ "status" \in DOMAIN diag.ret
    /\ diag.at = i

\* diagnose_node returned an error outcome: no status in it
ErrorOutcome ==
    /\ diag.exc = "none"
    /\ "error" \in DOMAIN diag.ret
    /\ "status" \notin DOMAIN diag.ret

\* C3: a query is resolved in two phases: the first row whose name equals
\* it (case ignored) is diagnosed; only when there is none, the rows whose
\* name contains it as a substring (case ignored) are taken: none is the
\* not-found error, several the ambiguous-match error with their names in
\* table order, exactly one is diagnosed.  An error carries no status.
C3_TwoPhaseResolution ==
    diag.exc # "unset" =>
        LET q     == diag.query
            name(i) == TableRowsLoaded[i]["nudo"]
            exact == SelectSeq(Index(TableRowsLoaded),
                               LAMBDA i : Upper(name(i)) = Upper(q))
            sub   == SelectSeq(Index(TableRowsLoaded),
                               LAMBDA i : ContainsText(name(i), q))
        IN  IF exact # <<>> THEN Diagnosed(exact[1])
            ELSE IF sub = <<>>
            THEN ErrorOutcome /\ "matches" \notin DOMAIN diag.ret
            ELSE IF Len(sub) > 1
            THEN /\ ErrorOutcome
                 /\ "matches" \in DOMAIN diag.ret
                 /\ diag.ret.matches = [i \in 1..Len(sub) |-> name(sub[i])]
            ELSE Diagnosed(sub[1])

\* s without the whitespace before its first and after its last other symbol
Core(s) ==
    LET ink == {i \in 1..Len(s) : s[i] \notin Whitespace}
    IN  IF ink = {} THEN <<>>
        ELSE SubSeq(s, CHOOSE i \in ink : \A j \in ink : i <= j,
                       CHOOSE i \in ink : \A j \in ink : i >= j)

\* the number the digits of s spell, read left to right, other symbols skipped
RECURSIVE NumeralValue(_, _)
NumeralValue(s, acc) ==
    IF s = <<>> THEN acc
    ELSE IF Head(s) \in Digits
    THEN NumeralValue(Tail(s), 10 * acc + DigitVal(Head(s)))
    ELSE NumeralValue(Tail(s), acc)

\* t is a numeric literal Python's float() accepts, dots aside: between
\* optional whitespace, [sign] digits [e [sign] digits], or [sign] nan /
\* inf / infinity
IsFloatLiteral(t) ==
    LET c == Core(t)
        u == IF c # <<>> /\ c[1] \in {"+", "-"} THEN Tail(c) ELSE c
        unsignedExp(x) == IF x # <<>> /\ x[1] \in {"+", "-"} THEN Tail(x) ELSE x
    IN  \/ Upper(u) \in {<<"N", "A", "N">>, <<"I", "N", "F">>,
                         <<"I", "N", "F", "I", "N", "I", "T", "Y">>}
        \/ DigitsOK(u)
        \/ \E k \in 2..(Len(u) - 1) :
              /\ u[k] \in {"e", "E"}
              /\ DigitsOK(SubSeq(u, 1, k - 1))
              /\ DigitsOK(unsignedExp(SubSeq(u, k + 1, Len(u))))

\* C4: _parse_num never raises and always returns a float; a missing value,
\* and a value that trimmed is empty or "N/A", give 0.0; a value made of
\* digits and "." separators gives the number its digits spell ("1.310" is
\* 1310.0); a value that is no numeric literal once its dots are removed
\* gives 0.0.
C4_ParseNumFailsSoft ==
    out.fn = "_parse_num" =>
        /\ out.val.kind \in {"fin", "nan", "inf"}
        /\ cell = NA => out.val = Zero
        /\ cell # NA =>
            LET core == Core(cell)
            IN  /\ core \in {<<>>, <<"N", "/", "A">>} => out.val = Zero
                /\ (/\ \A i \in 1..Len(core) : core[i] \in Digits \cup {"."}
                    /\ \E i \in 1..Len(core) : core[i] \in Digits)
                    => /\ out.val.kind = "fin"
                       /\ out.val.e >= 0
                       /\ out.val.m * Pow10(out.val.e) = NumeralValue(core, 0)
                /\ ~IsFloatLiteral(SelectSeq(core, LAMBDA c : c # "."))
                    => out.val = Zero

\* "1.100" parsed: the separator dropped, 1100.0
C4_Witness ==
    /\ out.fn = "_parse_num"
    /\ cell = <<"1", ".", "1", "0", "0">>
    /\ out.val = Float(11, 2)

\* C5: in every table load returns, whatever the raw cells, every value of
\* every numeric column is a number that is not negative and not NaN.
C5_NumericNonNegative ==
    Loaded =>
        \A r \in 1..Len(TableRowsLoaded) :
            \A i \in 1..Len(NUMERIC_COLUMNS) :
                LET v == TableRowsLoaded[r][NUMERIC_COLUMNS[i]]
                IN  v.kind = "fin" /\ v.m >= 0

\* C6: _parse_checkmark returns true exactly for a value that is one
\* checkmark glyph with nothing but whitespace around it; empty, missing and
\* every other value give false.
C6_CheckmarkOnly ==
    out.fn = "_parse_checkmark" =>
        out.val =
            (/\ cell # NA
             /\ \E i \in 1..Len(cell) :
                   /\ cell[i] = "CHECKMARK"
                   /\ \A j \in 1..Len(cell) : j # i => cell[j] \in Whitespace)

\* a padded checkmark parsed as true
C6_Witness ==
    /\ out.fn = "_parse_checkmark"
    /\ cell = <<" ", "CHECKMARK", " ">>
    /\ out.val = TRUE

\* C7: when the source path does not exist, load fails with the not-found
\* error before anything is read, its message says to run the download
\* step, and no table is returned.
C7_MissingFileNotFound ==
    (loaded.exc # "unset" /\ ~file.exists) =>
        /\ loaded.exc = "FileNotFoundError"
        /\ \A i \in 1..Len(ioTrace) : ioTrace[i] # "read_csv"
        /\ \E i \in 1..Len(loaded.msg) :
              loaded.msg[i] = "Run 'capacidad download' to fetch it."
        /\ loaded.df = NoTable

\* load_csv has been called on a path that does not exist
C7_Witness ==
    /\ ~file.exists
    /\ loaded.exc = "FileNotFoundError"
    /\ ioTrace = <<"exists">>

\* C8: after load, in every row each derived flag equals its definition over
\* the parsed fields of that row: is_blocked_technical iff the criterion is
\* non-empty and the capacity is zero; is_blocked_regulatory iff the reason
\* is non-empty; has_wscr_alert iff the alert is non-empty; is_concurso iff
\* concurso is "SI"; acuerdo_resuelto iff estado_acuerdo is "SI".
C8_DerivedFlags ==
    Loaded =>
        \A r \in 1..Len(TableRowsLoaded) :
            LET row == TableRowsLoaded[r]
            IN  /\ row["is_blocked_technical"]
                    = (/\ Len(row["limitante_dem_cep_ch"]) > 0
                       /\ row["disp_dem_cep_ch"] = Zero)
                /\ row["is_blocked_regulatory"]
                    = (Len(row["motivo_no_otorgable"]) > 0)
                /\ row["has_wscr_alert"] = (Len(row["wscr_alertas"]) > 0)
                /\ row["is_concurso"] = (row["concurso"] = <<"S", "I">>)
                /\ row["acuerdo_resuelto"]
                    = (row["estado_acuerdo"] = <<"S", "I">>)

\* a loaded row with a reason and an alert, in a tender, whose agreement
\* does not apply
C8_Witness ==
    /\ Loaded
    /\ \E r \in 1..Len(TableRowsLoaded) :
          LET row == TableRowsLoaded[r]
          IN  /\ row["is_blocked_regulatory"]
              /\ row["has_wscr_alert"]
              /\ row["is_concurso"]
              /\ row["estado_acuerdo"] = <<>>
              /\ ~row["acuerdo_resuelto"]

\* the raw node-name field of data row r of the file
RawName(r) == file.lines[HeaderRows + r][1]

\* the digits s ends with
RECURSIVE TrailingDigits(_)
TrailingDigits(s) ==
    IF s # <<>> /\ s[Len(s)] \in Digits
    THEN Append(TrailingDigits(SubSeq(s, 1, Len(s) - 1)), s[Len(s)])
    ELSE <<>>

\* C9: load sets voltage_kv to the number spelt by the digits the trimmed
\* node name ends with; a name that ends with no digit has a missing
\* voltage_kv, which is not 0.
C9_VoltageFromTrailingDigits ==
    Loaded =>
        \A r \in 1..Len(TableRowsLoaded) :
            LET tail == TrailingDigits(Core(RawName(r)))
                v    == TableRowsLoaded[r]["voltage_kv"]
            IN  IF tail = <<>>
                THEN v.kind = "nan" /\ v # Zero
                ELSE /\ v.kind = "fin"
                     /\ v.e >= 0
                     /\ v.m * Pow10(v.e) = NumeralValue(tail, 0)

\* a padded name ending in a digit loaded with that voltage, beside a name
\* without digits loaded with a missing voltage
C9_Witness ==
    /\ Loaded
    /\ Len(TableRowsLoaded) = 2
    /\ RawName(1) = <<"a", "4", " ">>
    /\ TableRowsLoaded[1]["voltage_kv"] = Float(4, 0)
    /\ RawName(2) = <<"B">>
    /\ TableRowsLoaded[2]["voltage_kv"] = NaN

\* C10: load of an existing file whose data rows have more fields than the
\* registry has columns succeeds: the registry's names go to the leading
\* columns, the extra columns are kept, and no error is raised.
C10_ExtraColumnsKept ==
    (/\ loaded.exc # "unset"
     /\ file.exists
     /\ Len(file.lines) > HeaderRows
     /\ Len(file.lines[HeaderRows + 1]) > Len(COLUMN_NAMES)) =>
        /\ loaded.exc = "none"
        /\ SubSeq(loaded.df.columns, 1, Len(COLUMN_NAMES)) = COLUMN_NAMES
        /\ Len(loaded.df.columns) >= Len(file.lines[HeaderRows + 1])


\* the query fn has been called on the loaded table
Called(fn) == res.fn = fn

CheckNames ==
    {"row_count", "col_count", "total_cep_ch_mw", "cataluna_nodes",
     "unique_ccaa"}

\* C12: validate returns a result {expected, actual, ok} for each of the
\* five fixed checks for every loaded table: it never raises, whichever
\* checks fail.
C12_ValidateReportsAllChecks ==
    Called("validate") =>
        /\ res.exc = "none"
        /\ DOMAIN res.ret = CheckNames
        /\ \A c \in CheckNames :
              DOMAIN res.ret[c] = {"expected", "actual", "ok"}

\* the predicates of a filter_nodes call as the rows must satisfy them; a
\* region of None or "" and a minimum of 0 (the default) are omitted ones
SatisfiesFilter(row, a) ==
    /\ a.ccaa \notin {NA, <<>>} => ContainsText(row["ccaa"], a.ccaa)
    /\ a.min_mw # Zero => FltGe(row[a.capacity_col], a.min_mw)
    /\ a.voltage_kv # None => FltEq(row["voltage_kv"], a.voltage_kv)
    /\ a.only_available => IsPositive(row[a.capacity_col])
    /\ a.only_concurso # "None"
          => row["is_concurso"] = (a.only_concurso = "True")

\* the frame res.ret holds exactly the rows of the loaded table at the
\* positions at, in that order, with all their columns
ReturnsRowsAt(at) ==
    /\ res.exc = "none"
    /\ res.ret.index = at
    /\ res.ret.columns = loaded.df.columns
    /\ res.ret.rows = [i \in 1..Len(at) |-> TableRowsLoaded[at[i]]]

\* C13: filter_nodes returns exactly the rows of the table, in table order,
\* that satisfy every supplied predicate: region contained in the row's
\* region as a text (case ignored), capacity >= min_mw, voltage_kv equal,
\* capacity > 0 when only_available, is_concurso equal to only_concurso;
\* with no predicate supplied every row is returned.
C13_FilterIsConjunction ==
    Called("filter_nodes") =>
        ReturnsRowsAt(SelectSeq(Index(TableRowsLoaded),
                                LAMBDA i : SatisfiesFilter(TableRowsLoaded[i],
                                                           res.args)))

\* C13 for the calls whose region holds no regular-expression character
C13_LiteralRegion ==
    Called("filter_nodes") /\ res.args.ccaa \notin {<<".">>, <<"(">>} =>
        ReturnsRowsAt(SelectSeq(Index(TableRowsLoaded),
                                LAMBDA i : SatisfiesFilter(TableRowsLoaded[i],
                                                           res.args)))

\* filter_nodes(df, ccaa="Galicia") has been called, every other argument
\* left at its default
FilteredByGalicia ==
    /\ Called("filter_nodes")
    /\ res.args = [ccaa |-> Galicia, min_mw |-> Zero,
                   capacity_col |-> "disp_dem_cep_ch", voltage_kv |-> None,
                   only_available |-> FALSE, only_concurso |-> "None"]

\* the number of loaded rows whose region is exactly "Galicia"
GaliciaRows ==
    Len(SelectSeq(TableRowsLoaded, LAMBDA row : row["ccaa"] = Galicia))

\* the number of loaded rows whose region contains "Galicia", case ignored
GaliciaLikeRows ==
    Len(SelectSeq(TableRowsLoaded,
                  LAMBDA row : ContainsText(row["ccaa"], Galicia)))

\* C14 as stated: filter_nodes(df, ccaa="Galicia") returns only rows whose
\* region is exactly "Galicia", as many as the table has.
C14_GaliciaExactly ==
    FilteredByGalicia =>
        /\ res.exc = "none"
        /\ \A i \in 1..Len(res.ret.rows) : res.ret.rows[i]["ccaa"] = Galicia
        /\ Len(res.ret.rows) = GaliciaRows

\* C14 amended: filter_nodes(df, ccaa="Galicia") returns only rows whose
\* region contains "Galicia" as a text, letter case ignored, as many as the
\* table has; when every such region of the table is exactly "Galicia",
\* they are the rows whose region is exactly "Galicia".
C14_GaliciaContained ==
    FilteredByGalicia =>
        /\ res.exc = "none"
        /\ \A i \in 1..Len(res.ret.rows) :
              ContainsText(res.ret.rows[i]["ccaa"], Galicia)
        /\ Len(res.ret.rows) = GaliciaLikeRows
        /\ (\A i \in 1..Len(TableRowsLoaded) :
                ContainsText(TableRowsLoaded[i]["ccaa"], Galicia)
                    => TableRowsLoaded[i]["ccaa"] = Galicia)
              => /\ \A i \in 1..Len(res.ret.rows) :
                       res.ret.rows[i]["ccaa"] = Galicia
                 /\ Len(res.ret.rows)
                       = GaliciaRows

\* the call returned a row of region "galicia" beside one of region
\* "Galicia" and left out a row of another region
C14_Witness ==
    /\ FilteredByGalicia
    /\ Len(TableRowsLoaded) = 3
    /\ Len(res.ret.rows) = 2
    /\ res.ret.rows[1]["ccaa"] = Galicia
    /\ res.ret.rows[2]["ccaa"] = <<"g", "a", "l", "i", "c", "i", "a">>

RECURSIVE SumOf(_)
SumOf(ns) == IF ns = <<>> THEN 0 ELSE ns[1] + SumOf(Tail(ns))

\* C15: the total_mw of the groups returned by summary_by_region add up to
\* the sum of the capacity column over the whole table, and the groups'
\* node counts add up to the number of rows of the table.
C15_SummaryAddsUp ==
    Called("summary_by_region") =>
        /\ res.exc = "none"
        /\ Normal(SumOf(Column(res.ret.rows, "total_mw")), 0)
              = Sum(Column(TableRowsLoaded, res.args.capacity_col))
        /\ SumOf(Column(res.ret.rows, "nodes")) = Len(TableRowsLoaded)

\* C15 on the tables whose capacity column holds whole finite numbers only
C15_WholeNumbers ==
    /\ Called("summary_by_region")
    /\ \A i \in 1..Len(TableRowsLoaded) :
          LET v == TableRowsLoaded[i][res.args.capacity_col]
          IN  v.kind = "fin" /\ v.e >= 0
    => /\ res.exc = "none"
       /\ Normal(SumOf(Column(res.ret.rows, "total_mw")), 0)
             = Sum(Column(TableRowsLoaded, res.args.capacity_col))
       /\ SumOf(Column(res.ret.rows, "nodes")) = Len(TableRowsLoaded)

\* the rows of the loaded table whose region is k
RowsOfRegion(k) ==
    SelectSeq(TableRowsLoaded, LAMBDA row : row["ccaa"] = k)

\* avg is an integer nearest to the mean of the values xs that are numbers
NearestToMean(avg, xs) ==
    LET s == Sum(xs)
        n == Len(NotNan(xs))
        e == IF s.e < 0 THEN s.e ELSE 0
        d == 2 * (avg * n * Pow10(0 - e) - Scale(s, e))
    IN  /\ n > 0
        /\ s.kind = "fin"
        /\ d <= n * Pow10(0 - e)
        /\ 0 - d <= n * Pow10(0 - e)

\* row is the summary of the rows of region row.ccaa for capacity column c
SummarisesRegion(row, c) ==
    LET g == RowsOfRegion(row.ccaa)
    IN  /\ row.nodes = Len(g)
        /\ Normal(row.total_mw, 0) = Sum(Column(g, c))
        /\ NearestToMean(row.avg_mw, Column(g, c))
        /\ row.nodes_with_capacity
              = Cardinality({i \in 1..Len(g) : IsPositive(g[i][c])})
        /\ row.nodes_blocked
              = Cardinality({i \in 1..Len(g) : IsZero(g[i][c])})
        /\ row.unresolved_agreement
              = Cardinality({i \in 1..Len(g) :
                                g[i]["estado_acuerdo"] = <<"N", "O">>})

\* res.ret is the summary by region of the loaded table
IsSummaryByRegion ==
    /\ res.exc = "none"
    /\ {res.ret.rows[i].ccaa : i \in 1..Len(res.ret.rows)}
          = {TableRowsLoaded[i]["ccaa"] : i \in 1..Len(TableRowsLoaded)}
    /\ \A i, j \in 1..Len(res.ret.rows) :
          i # j => res.ret.rows[i].ccaa # res.ret.rows[j].ccaa
    /\ \A i \in 1..Len(res.ret.rows) :
          SummarisesRegion(res.ret.rows[i], res.args.capacity_col)
    /\ \A i \in 1..(Len(res.ret.rows) - 1) :
          res.ret.rows[i].total_mw >= res.ret.rows[i + 1].total_mw

\* C16: summary_by_region returns one row per distinct region holding the
\* group's node count, the sum of the capacity column, its mean rounded to
\* the nearest integer, the numbers of nodes with capacity > 0, with
\* capacity == 0 and with estado_acuerdo "NO"; the rows are ordered by
\* total descending.
C16_SummaryRows == Called("summary_by_region") => IsSummaryByRegion

\* C16 on the tables whose capacity column holds whole finite numbers only
C16_WholeNumbers ==
    /\ Called("summary_by_region")
    /\ \A i \in 1..Len(TableRowsLoaded) :
          LET v == TableRowsLoaded[i][res.args.capacity_col]
          IN  v.kind = "fin" /\ v.e >= 0
    => IsSummaryByRegion

\* the number of loaded rows whose column c is > 0
PositiveCount(c) ==
    Cardinality({i \in 1..Len(TableRowsLoaded) :
                    IsPositive(TableRowsLoaded[i][c])})

\* C17: top_nodes(df, n, capacity_col) returns rows that all have capacity
\* > 0, non-increasing in the capacity column, min(n, number of rows with
\* capacity > 0) of them, for every table and every n >= 0.
C17_TopNodesRanked ==
    Called("top_nodes") =>
        LET c    == res.args.capacity_col
            rows == res.ret.rows
        IN  /\ res.exc = "none"
            /\ \A i \in 1..Len(rows) : IsPositive(rows[i][c])
            /\ \A i \in 1..(Len(rows) - 1) : FltGe(rows[i][c], rows[i + 1][c])
            /\ Len(rows) = Min(res.args.n, PositiveCount(c))

\* two of three rows with capacity > 0 were asked for, out of a table that
\* also has a row of capacity 0, and came back in descending order
C17_Witness ==
    /\ Called("top_nodes")
    /\ res.args = [n |-> 2, capacity_col |-> "disp_dem_cep_ch"]
    /\ PositiveCount("disp_dem_cep_ch") = 2
    /\ Len(TableRowsLoaded) = 3
    /\ Len(res.ret.rows) = 2
    /\ res.ret.rows[1]["disp_dem_cep_ch"] = Float(105, -1)
    /\ res.ret.rows[2]["disp_dem_cep_ch"] = Float(1, 1)
    /\ TableRowsLoaded[1]["disp_dem_cep_ch"] = Zero

\* the positions of the loaded rows with column c > 0, by descending c,
\* rows of equal c in table order
StableRanking(c) ==
    CHOOSE p \in Orderings({i \in 1..Len(TableRowsLoaded) :
                               IsPositive(TableRowsLoaded[i][c])}) :
        \A i, j \in 1..Len(p) :
            i < j =>
                \/ FltLt(TableRowsLoaded[p[j]][c], TableRowsLoaded[p[i]][c])
                \/ /\ TableRowsLoaded[p[j]][c] = TableRowsLoaded[p[i]][c]
                   /\ p[i] < p[j]

\* C18: in the result of top_nodes, rows of equal capacity appear in their
\* original table order, so which tied rows make the first n is determined
\* by table order.
C18_TopNodesStable ==
    Called("top_nodes") =>
        LET c == res.args.capacity_col
            p == Prefix(StableRanking(c), res.args.n)
        IN  /\ res.exc = "none"
            /\ res.ret.rows
                  = [i \in 1..Len(p) |->
                        Project(TableRowsLoaded[p[i]], TopColumns(c))]

\* res.ret holds the first res.args.limit loaded rows whose name contains
\* the query as a text (case ignored), in table order
IsSearchResult ==
    LET hits == SelectSeq(Index(TableRowsLoaded),
                          LAMBDA i : ContainsText(TableRowsLoaded[i]["nudo"],
                                                  res.args.query))
        p    == Prefix(hits, res.args.limit)
    IN  /\ res.exc = "none"
        /\ Len(res.ret.rows) = Min(res.args.limit, Len(hits))
        /\ res.ret.rows
              = [i \in 1..Len(p) |->
                    Project(TableRowsLoaded[p[i]], SearchColumns)]

\* C19: search_nodes(df, query, limit) returns the first min(limit, number
\* of matches) rows, in table order, of the rows whose node name contains
\* the query as a case-insensitive substring: never a row that does not
\* match, never more than limit rows.
C19_SearchFirstMatches == Called("search_nodes") => IsSearchResult

\* C19 for the queries that hold no regular-expression character
C19_LiteralQuery ==
    Called("search_nodes") /\ res.args.query \notin {<<".">>, <<"(">>}
        => IsSearchResult

\* the positions of the loaded rows blocked_nodes(df, reason) is to return
BlockedFor(reason) ==
    {i \in 1..Len(TableRowsLoaded) :
        /\ TableRowsLoaded[i]["disp_dem_cep_ch"] = Zero
        /\ reason = "technical"
              => TableRowsLoaded[i]["is_blocked_technical"] = TRUE
        /\ reason = "regulatory"
              => TableRowsLoaded[i]["is_blocked_regulatory"] = TRUE}

\* C20: blocked_nodes(df, reason) returns exactly the rows whose primary
\* available capacity is zero, restricted to the rows with
\* is_blocked_technical when reason is "technical" and to the rows with
\* is_blocked_regulatory when reason is "regulatory"; the returned rows are
\* ordered by region.
C20_BlockedNodes ==
    Called("blocked_nodes") =>
        /\ res.exc = "none"
        /\ \E p \in Orderings(BlockedFor(res.args.reason)) :
              res.ret.rows
                  = [i \in 1..Len(p) |->
                        Project(TableRowsLoaded[p[i]], BlockedColumns)]
        /\ \A i \in 1..(Len(res.ret.rows) - 1) :
              ~StrLt(res.ret.rows[i + 1]["ccaa"], res.ret.rows[i]["ccaa"])

\* of a table holding a regulatory block of region "galicia", a technical
\* block of region "Aragon" and a node with capacity, in that order, the
\* regulatory block alone was returned
C20_Witness ==
    /\ Called("blocked_nodes")
    /\ res.args.reason = "regulatory"
    /\ Len(TableRowsLoaded) = 3
    /\ TableRowsLoaded[1]["is_blocked_regulatory"] = TRUE
    /\ TableRowsLoaded[2]["is_blocked_technical"] = TRUE
    /\ IsPositive(TableRowsLoaded[3]["disp_dem_cep_ch"])
    /\ Len(res.ret.rows) = 1
    /\ res.ret.rows[1]["nudo"] = TableRowsLoaded[1]["nudo"]

\* both blocks were returned, the later row of the table first because its
\* region sorts first
C20_WitnessSorted ==
    /\ Called("blocked_nodes")
    /\ res.args.reason = "None"
    /\ Len(TableRowsLoaded) = 2
    /\ Len(res.ret.rows) = 2
    /\ res.ret.rows[1]["nudo"] = TableRowsLoaded[2]["nudo"]
    /\ res.ret.rows[1]["ccaa"] # res.ret.rows[2]["ccaa"]

\* C21: binding_criteria_distribution returns one entry per distinct
\* non-empty value of the criterion column with the number of rows holding
\* it, ordered by count descending; "" is never an entry and the counts
\* sum to the number of rows whose criterion is non-empty.
C21_CriteriaDistribution ==
    Called("binding_criteria_distribution") =>
        LET c    == res.args.criteria_col
            rows == res.ret.rows
            held(v) == Cardinality({i \in 1..Len(TableRowsLoaded) :
                                       TableRowsLoaded[i][c] = v})
        IN  /\ res.exc = "none"
            /\ {rows[i].criterion : i \in 1..Len(rows)}
                  = {TableRowsLoaded[i][c] : i \in 1..Len(TableRowsLoaded)}
                      \ {<<>>}
            /\ \A i, j \in 1..Len(rows) :
                  i # j => rows[i].criterion # rows[j].criterion
            /\ \A i \in 1..Len(rows) : rows[i].nodes = held(rows[i].criterion)
            /\ \A i \in 1..(Len(rows) - 1) : rows[i].nodes >= rows[i + 1].nodes
            /\ \A i \in 1..Len(rows) : rows[i].criterion # <<>>
            /\ SumOf(Column(rows, "nodes"))
                  = Cardinality({i \in 1..Len(TableRowsLoaded) :
                                    TableRowsLoaded[i][c] # <<>>})

\* of a table of one row without criterion and two rows with the same
\* criterion, one entry counting the two was returned
C21_Witness ==
    /\ Called("binding_criteria_distribution")
    /\ res.args.criteria_col = "limitante_dem_cep_ch"
    /\ Len(TableRowsLoaded) = 3
    /\ TableRowsLoaded[1]["limitante_dem_cep_ch"] = <<>>
    /\ res.ret.rows = <<[criterion |-> <<"Din1_Zona">>, nodes |-> 2]>>

\* the queries that return a frame
FrameQueries ==
    {"filter_nodes", "summary_by_region", "top_nodes", "search_nodes",
     "blocked_nodes", "binding_criteria_distribution"}

\* C22: no query and no diagnostic changes the table it is given: through
\* any sequence of them the loaded table keeps its rows, columns and
\* values, and each frame returned is a new object, never the table itself
\* (the dict diagnose_node returns is built by a dict display).
C22_TableUntouched ==
    [][/\ loaded.exc = "none" => loaded' = loaded
       /\ res'.fn \in FrameQueries /\ res'.exc = "none"
             => res'.ret.obj = "new"]_vars

\* a node was diagnosed and then the table filtered with a predicate every
\* row satisfies: the frame returned holds all the rows of the table
C22_Witness ==
    /\ diag.exc = "none"
    /\ "status" \in DOMAIN diag.ret
    /\ Called("filter_nodes")
    /\ Len(TableRowsLoaded) = 2
    /\ res.ret.rows = TableRowsLoaded
    /\ res.ret.obj = "new"

\* the characters of the fixed texts of the error messages
Spelling(s) ==
    CASE s = "Error: {}" -> <<"E", "r", "r", "o", "r", ":", " ">>
      [] s = "Node '" -> <<"N", "o", "d", "e", " ", "'">>
      [] s = "' not found" ->
           <<"'", " ", "n", "o", "t", " ", "f", "o", "u", "n", "d">>
      [] s = "Multiple matches for '" ->
           <<"M", "u", "l", "t", "i", "p", "l", "e", " ", "m", "a", "t", "c", "h", "e", "s", " ", "f", "o", "r", " ", "'">>
      [] s = "'" -> <<"'">>

\* the characters of the one line generate_report returns for an error:
\* the fixed texts spelled out around the query
ErrorText(line) ==
    Spelling(line.fmt) \o Spelling(line.args[1][1]) \o line.args[1][2]
    \o Spelling(line.args[1][3])

\* generate_report was applied to an error value of diagnose_node
RenderedError ==
    /\ Called("generate_report")
    /\ "error" \in DOMAIN diag.ret

\* C23: generate_report applied to an error value of diagnose_node returns
\* one line of text, and when the error is an ambiguous match every node
\* name the error carries appears in that text.
C23_ErrorListsCandidates ==
    RenderedError =>
        /\ res.exc = "none"
        /\ Len(res.ret) = 1
        /\ "matches" \in DOMAIN diag.ret =>
              \A i \in 1..Len(diag.ret.matches) :
                  ContainsText(ErrorText(res.ret[1]), diag.ret.matches[i])

\* the part that holds: an error value is rendered as one line that starts
\* with "Error: " and quotes the query
C23_ErrorIsOneLine ==
    RenderedError =>
        /\ res.exc = "none"
        /\ Len(res.ret) = 1
        /\ ContainsText(ErrorText(res.ret[1]), diag.query)


\* generate_report returned the text of a diagnostic record
RenderedRecord ==
    /\ Called("generate_report")
    /\ res.exc = "none"
    /\ "status" \in DOMAIN diag.ret

\* the lines of the text whose fixed text is fmt, in order
LinesOf(text, fmt) == SelectSeq(text, LAMBDA l : l.fmt = fmt)

AllPrefixes == {WSCR, Est_Dem, Est_Alm, Din1, Din2}

\* the position of the first sub-code of code that starts with prefix p,
\* 0 when there is none
FirstUse(code, p) ==
    LET subs == Split(code, "/")
        uses == {i \in 1..Len(subs) : StartsWith(Strip(subs[i]), p)}
    IN  IF code = <<>> \/ uses = {} THEN 0
        ELSE CHOOSE i \in uses : \A j \in uses : i <= j

\* the prefix whose context is the symbol c
PrefixWithContext(c) ==
    CHOOSE p \in AllPrefixes : _criterion_context(p) = <<c>>

\* the contexts of an explanation, which are joined by blanks
ContextsOf(explanation) ==
    SelectSeq(explanation, LAMBDA c : c # " ")

\* C24: the "Why this limit?" section is in the report only when the
\* primary binding criterion is present; its explanation holds, for a code
\* whose sub-codes are joined by "/", the context of every prefix (WSCR,
\* Est_Dem, Est_Alm, Din1, Din2) that a sub-code starts with, each exactly
\* once, in the order in which the prefixes first appear in the code.
C24_WhyThisLimit ==
    RenderedRecord =>
        LET code  == diag.ret.binding_criteria.CEP_CH
            title == LinesOf(res.ret, "### Why this limit?")
            body  == LinesOf(res.ret, "{}")
            used  == {p \in AllPrefixes : FirstUse(code, p) > 0}
        IN  /\ Len(title) <= 1
            /\ Len(body) = Len(title)
            /\ title # <<>> => code # <<>>
            /\ title = <<>> => used = {}
            /\ title # <<>> =>
                  LET cs == ContextsOf(body[1].args[1])
                  IN  /\ Len(cs) = Cardinality(used)
                      /\ \A p \in used :
                            \E k \in 1..Len(cs) : <<cs[k]>> = _criterion_context(p)
                      /\ \A k, l \in 1..Len(cs) :
                            k < l =>
                               FirstUse(code, PrefixWithContext(cs[k]))
                                 < FirstUse(code, PrefixWithContext(cs[l]))

\* a report of a code with three sub-codes, two of them with the same
\* prefix, whose explanation holds two contexts
C24_Witness ==
    /\ RenderedRecord
    /\ Len(Split(diag.ret.binding_criteria.CEP_CH, "/")) = 3
    /\ LinesOf(res.ret, "{}") # <<>>
    /\ Len(ContextsOf(LinesOf(res.ret, "{}")[1].args[1])) = 2

\* the rows of the status table: the fixed text of the row and the key of
\* its capacity category
CategoryRows ==
    {<<"| CEP CH demand | {} | {} | {} |", "CEP_CH">>,
     <<"| CEP SH demand | {} | {} | {} |", "CEP_SH">>,
     <<"| NO CEP demand | {} | {} | {} |", "NO_CEP">>,
     <<"| CEP storage | {} | {} | {} |", "Storage_CEP">>,
     <<"| NO CEP storage | {} | {} | {} |", "Storage_NO_CEP">>}

\* the margins a code refers to: one for each prefix a sub-code starts with
ReferencedMargins(code, margins) ==
    {MarginOf(p, margins) : p \in {q \in AllPrefixes : FirstUse(code, q) > 0}}

\* the number a cell shows: an optional sign, digits in groups
NumberShown(t) ==
    LET body == SelectSeq(t, LAMBDA c : c \in Digits)
    IN  IF t[1] = "-" THEN 0 - DigitsVal(body) ELSE DigitsVal(body)

\* C25: in every row of the status table of a report, the margin shown for
\* the category's binding criterion code is the least of the margins the
\* code's sub-codes (split on "/") refer to by their prefixes; a single code
\* shows its own margin and an empty code shows no margin.
C25_MarginIsMinimum ==
    RenderedRecord =>
        \A c \in CategoryRows :
            LET rows   == LinesOf(res.ret, c[1])
                code   == diag.ret.binding_criteria[c[2]]
                refd   == ReferencedMargins(code, diag.ret.margins)
                margin == rows[1].args[3]
            IN  /\ Len(rows) = 1
                /\ code = <<>> => margin = <<"EMDASH">>
                /\ refd # {} =>
                      /\ margin # <<"EMDASH">>
                      /\ NumberShown(margin) \in refd
                      /\ \A v \in refd : NumberShown(margin) <= v

\* a report whose primary code refers to two margins, the one shown being
\* the smaller and not that of the first sub-code, and whose storage code is
\* empty and shows no margin
C25_Witness ==
    /\ RenderedRecord
    /\ LET code   == diag.ret.binding_criteria.CEP_CH
           refd   == ReferencedMargins(code, diag.ret.margins)
           margin == LinesOf(res.ret, "| CEP CH demand | {} | {} | {} |")[1].args[3]
       IN  /\ Cardinality(refd) = 2
           /\ NumberShown(margin)
                < MarginOf(PrefixOf(SubCodes(code)[1]), diag.ret.margins)
    /\ diag.ret.binding_criteria.Storage_CEP = <<>>
    /\ LinesOf(res.ret, "| CEP storage | {} | {} | {} |")[1].args[3]
         = <<"EMDASH">>

\* the header line of a report, whichever of its two forms
HeaderOf(text) ==
    LinesOf(text, "## {} - {} ({} kV)") \o LinesOf(text, "## {} - {} ({} kV)  ")

\* C28: generate_report returns text for every diagnostic record that
\* diagnose_node produces from a loaded table, also for a node whose name
\* has no digits at its end (voltage_kv is nan): it does not raise, and the
\* header does not show the unknown voltage as 0.
C28_ReportOfEveryRecord ==
    (Called("generate_report") /\ "status" \in DOMAIN diag.ret) =>
        /\ res.exc = "none"
        /\ Len(HeaderOf(res.ret)) = 1
        /\ diag.ret.voltage_kv.kind = "nan"
              => HeaderOf(res.ret)[1].args[3] # <<"0">>

\* the part that holds: a record with a known voltage is rendered, and its
\* header shows the voltage
C28_ReportOfKnownVoltage ==
    (Called("generate_report") /\ "status" \in DOMAIN diag.ret
        /\ diag.ret.voltage_kv.kind = "fin") =>
        /\ res.exc = "none"
        /\ Len(HeaderOf(res.ret)) = 1
        /\ Float(NumberShown(HeaderOf(res.ret)[1].args[3]), 0)
             = diag.ret.voltage_kv

\* a command has run
CommandRun == Called("node") \/ Called("report")

\* what diagnose_node answers for the command's argument on the table at
\* the default path
CommandLookup == diagnose_node(load_csv(file).df, res.args[1])

\* the table was loaded and the lookup returned an error value
LookupFailed ==
    /\ load_csv(file).exc = "none"
    /\ CommandLookup.exc = "none"
    /\ "error" \in DOMAIN CommandLookup.ret

\* the table was loaded and the lookup returned a diagnostic record
LookupSucceeded ==
    /\ load_csv(file).exc = "none"
    /\ CommandLookup.exc = "none"
    /\ "status" \in DOMAIN CommandLookup.ret

\* on a failed lookup a command prints the error, then one line for each
\* candidate of an ambiguous match and nothing else, and exits with a
\* status that is not zero
FailedLookupHandled ==
    LET d == CommandLookup.ret
        candidates == IF "matches" \in DOMAIN d THEN d.matches ELSE <<>>
    IN  /\ res.ret.exit # 0
        /\ Len(res.ret.stdout) = 1 + Len(candidates)
        /\ res.ret.stdout[1] = Line("[red]{}[/red]", <<d.error>>)
        /\ \A i \in 1..Len(candidates) :
              res.ret.stdout[1 + i] = Line("  - {}", <<candidates[i]>>)

\* C26: the node and report commands exit with a status that is not zero
\* when the lookup fails: on an ambiguous match they print the error and
\* every candidate name, on not-found the error alone, and in neither case
\* a diagnostic or a report; on a successful lookup they do not exit with a
\* status that is not zero.
C26_CommandExitStatus ==
    CommandRun =>
        /\ LookupFailed => FailedLookupHandled
        /\ LookupSucceeded => res.ret.exit = 0

\* the part that holds: the handling of a failed lookup
C26_FailedLookup ==
    (CommandRun /\ LookupFailed) => FailedLookupHandled

\* a command that ended a successful lookup with status 0 and a report
C26_SucceededLookup ==
    (CommandRun /\ LookupSucceeded
        /\ CommandLookup.ret.voltage_kv.kind = "fin") =>
        /\ res.ret.exit = 0
        /\ LinesOf(res.ret.stdout, "### Administrative") # <<>>

\* validate returned its checks
Validated == Called("validate") /\ res.exc = "none"

\* the values validate's checks are about, measured on the loaded table
Measured ==
    [row_count |-> Len(TableRowsLoaded),
     col_count |-> Len(loaded.df.columns),
     total_cep_ch_mw |->
        PyInt(Sum(Column(TableRowsLoaded, "disp_dem_cep_ch"))).val,
     cataluna_nodes |->
        Cardinality({i \in 1..Len(TableRowsLoaded) :
                        TableRowsLoaded[i]["ccaa"] = Cataluna}),
     unique_ccaa |->
        Cardinality({TableRowsLoaded[i]["ccaa"] :
                        i \in 1..Len(TableRowsLoaded)})]

\* the relation of a check between the actual and the expected value
CheckHolds(c, actual, expected) ==
    IF c = "col_count" THEN actual >= expected
    ELSE IF c = "total_cep_ch_mw"
    THEN actual - expected < 100 /\ expected - actual < 100
    ELSE actual = expected

\* C27: in every check result that validate returns, ok is true exactly
\* when the actual value reported stands in the check's relation to the
\* expected value reported (equality; at least for the column count; within
\* the tolerance for the capacity total), and the actual value is the one
\* measured on the table passed in.
C27_ChecksReportTheTable ==
    Validated =>
        \A c \in CheckNames :
            /\ res.ret[c].ok
                 = CheckHolds(c, res.ret[c].actual, res.ret[c].expected)
            /\ res.ret[c].actual = Measured[c]

\* the part that holds: every check but the column count reports the value
\* measured and is ok exactly when its relation holds
C27_ChecksButColumnCount ==
    Validated =>
        \A c \in CheckNames \ {"col_count"} :
            /\ res.ret[c].ok
                 = CheckHolds(c, res.ret[c].actual, res.ret[c].expected)
            /\ res.ret[c].actual = Measured[c]

\* the row at position i of the loaded table is among the rows that
\* blocked_nodes(df) returns
AmongBlocked(i) ==
    \E o \in blocked_nodes(loaded.df, "None") :
        Project(TableRowsLoaded[i], BlockedColumns) \in Range(o.ret.rows)

\* C29: the status diagnose_node computes for a row agrees with the columns
\* derived at load time and with blocked_nodes: it is BLOCKED_TECHNICAL
\* exactly when is_blocked_technical is true, BLOCKED_REGULATORY only when
\* is_blocked_regulatory is true, and AVAILABLE exactly when the row is not
\* among blocked_nodes(df).
C29_StatusAgreesWithDerived ==
    \A i \in 1..Len(TableRowsLoaded) :
        Diagnosed(i) =>
            LET row == TableRowsLoaded[i]
            IN  /\ (diag.ret.status = "BLOCKED_TECHNICAL")
                     = (row["is_blocked_technical"] = TRUE)
                /\ diag.ret.status = "BLOCKED_REGULATORY"
                     => row["is_blocked_regulatory"] = TRUE
                /\ (diag.ret.status = "AVAILABLE") = ~AmongBlocked(i)

\* the part that holds: for a row whose primary capacity is a whole number
\* of MW that is not negative, the status agrees with the derived columns
\* and with blocked_nodes
C29_WholeCapacity ==
    \A i \in 1..Len(TableRowsLoaded) :
        (Diagnosed(i)
            /\ TableRowsLoaded[i]["disp_dem_cep_ch"].kind = "fin"
            /\ TableRowsLoaded[i]["disp_dem_cep_ch"].e >= 0
            /\ TableRowsLoaded[i]["disp_dem_cep_ch"].m >= 0) =>
            LET row == TableRowsLoaded[i]
            IN  /\ (diag.ret.status = "BLOCKED_TECHNICAL")
                     = (row["is_blocked_technical"] = TRUE)
                /\ diag.ret.status = "BLOCKED_REGULATORY"
                     => row["is_blocked_regulatory"] = TRUE
                /\ (diag.ret.status = "AVAILABLE") = ~AmongBlocked(i)

\* the positions of the loaded rows whose field col contains q as a text,
\* letter case ignored
LiteralHits(col, q) ==
    SelectSeq(Index(TableRowsLoaded),
              LAMBDA i : ContainsText(TableRowsLoaded[i][col], q))

\* diagnose_node was called with a query that no node name equals
FuzzyPhase ==
    /\ diag.exc # "unset"
    /\ \A i \in 1..Len(TableRowsLoaded) :
          Upper(TableRowsLoaded[i]["nudo"]) # Upper(diag.query)

\* the fuzzy phase took the query as a text
FuzzyPhaseLiteral ==
    LET sub == LiteralHits("nudo", diag.query)
    IN  /\ diag.exc # "re.error"
        /\ IF sub = <<>>
           THEN ErrorOutcome /\ "matches" \notin DOMAIN diag.ret
           ELSE IF Len(sub) > 1
           THEN /\ ErrorOutcome
                /\ "matches" \in DOMAIN diag.ret
                /\ diag.ret.matches
                     = [i \in 1..Len(sub) |-> TableRowsLoaded[sub[i]]["nudo"]]
           ELSE diag.at = sub[1]

\* C30: search_nodes, the region predicate of filter_nodes and the fuzzy
\* phase of diagnose_node take every query, the empty one and one holding
\* "(", ".", "+" or "*" included, as a text to be found inside the field,
\* letter case ignored: a row matches exactly when its field contains the
\* characters of the query, and no query makes them raise.
C30_QueryIsLiteralText ==
    /\ Called("search_nodes") => IsSearchResult
    /\ Called("filter_nodes") =>
          ReturnsRowsAt(SelectSeq(Index(TableRowsLoaded),
                                  LAMBDA i : SatisfiesFilter(TableRowsLoaded[i],
                                                             res.args)))
    /\ FuzzyPhase => FuzzyPhaseLiteral

\* the part that holds: a query without regular-expression characters is
\* taken as a text, and the empty query matches every row
C30_PlainQuery ==
    /\ Called("search_nodes") /\ res.args.query \notin {<<".">>, <<"(">>}
          => IsSearchResult
    /\ Called("filter_nodes") /\ res.args.ccaa \notin {<<".">>, <<"(">>} =>
          ReturnsRowsAt(SelectSeq(Index(TableRowsLoaded),
                                  LAMBDA i : SatisfiesFilter(TableRowsLoaded[i],
                                                             res.args)))
    /\ FuzzyPhase /\ diag.query \notin {<<".">>, <<"(">>} => FuzzyPhaseLiteral

====
